---------------------------- MODULE Spec2Model ----------------------------
(***************************************************************************)
(* Streaming quantile sketches of edoliberty/streaming-quantiles:          *)
(*   KLL                  (kll.py)                                          *)
(*   RelativeErrorSketch  (relativeErrorSketch.py), "REQ" below             *)
(*   GDE                  (gde.py)                                          *)
(*                                                                          *)
(* Two sketch objects of one variant live in sk[1], sk[2].  Every public    *)
(* method is one action; an action models the whole call, including the    *)
(* compress loops it runs.  The random draws of a call (coin flips,         *)
(* shuffles) are nondeterministic choices.  A call that raises leaves the   *)
(* object as the code left it at the raise and records the exception in    *)
(* ret.exc.  Python lists are 0-based, TLA+ sequences 1-based: level h of   *)
(* the code is compactors[h+1] here.                                        *)
(***************************************************************************)
EXTENDS Integers, Sequences, FiniteSets

VARIABLES
    cfg,    \* constructor arguments shared by both sketches
    sk,     \* sk[i]: the i-th sketch object
    ins,    \* ghost: ins[i] = number of stream items summarised by sk[i]
    fed,    \* ghost: fed[i][x] = how many of them have the value x (KLL, REQ)
    ret     \* outcome of the last call: [op, self, exc, val]

vars == <<cfg, sk, ins, fed, ret>>

-----------------------------------------------------------------------------
(* Bounds of the model *)

\* item values of the stream are 1..MaxItem
MaxItem == 2
\* a stream has at most MaxN items, and a sketch summarises at most MaxN
MaxN == 6
\* the same for the long streams of one repeated item: SpecReqDeep
DeepMaxN == 25
\* and SpecKllDeep
KLL_DeepMaxN == 12
\* SpecReqCompact: the stream length with two item values and k = 1,
REQ_ItemsMaxN == 10
\* and the k and stream length of the runs of one repeated item
REQ_SchedK == 4
REQ_SchedMaxN == 60
\* largest accuracy parameter k given to the constructors of KLL and GDE
MaxK == 2
\* largest k given to the constructor of RelativeErrorSketch
REQ_MaxK == 1
GDE_MaxK == 3
GDE_StringMaxN == 5
KLL_StreamMaxN == 52
KLL_CompactK == 2
KLL_CompactItems == 3
KLL_CompactMaxN == 10
\* SpecKllGrow: the largest k, the most heights grow is called up to, and
\* the stream length
KLL_GrowMaxK == 4
KLL_GrowMaxH == 5
KLL_GrowMaxN == 10
\* SpecReqxFeed: the sectionSize given to the experimental sketches, the
\* most items fed to the first before the second merges it, and the items
\* both hold at most
REQX_FeedSectionSize == 4
REQX_FeedN == 144
REQX_FeedMaxN == 308
\* SpecQS: the largest k and the stream length of the QuantilesSketch runs
QS_MaxK == 3
QS_MaxN == 8
\* SpecBoxes: the largest max_size of PufferGoat and StairwayToHeaven, the
\* largest x fed, and the stream length
PG_MaxSize == 3
PG_MaxItem == 3
PG_MaxN == 6

\* the sketch with k = REQ_FeedK or REQ_FeedK + 2 that is fed REQ_FeedN items
\* before it is merged into an empty one, which is fed until both hold
\* REQ_FeedMaxN
REQ_FeedK == 6
REQ_FeedN == 688
REQ_FeedMaxN == 1411

Items == 1..MaxItem
Sketches == {1, 2}
Other(i) == 3 - i

-----------------------------------------------------------------------------
(* Arithmetic and list helpers *)

RECURSIVE Pow(_, _)
Pow(b, e) == IF e = 0 THEN 1 ELSE b * Pow(b, e - 1)

\* math.ceil of the rational a/b, b > 0, a >= 0
CeilDiv(a, b) == (a + b - 1) \div b

RECURSIVE SumSeq(_)
SumSeq(s) == IF s = <<>> THEN 0 ELSE Head(s) + SumSeq(Tail(s))

\* sum(len(c) for c in compactors), for compactor records with a buf field
RECURSIVE SumLen(_)
SumLen(cs) == IF cs = <<>> THEN 0 ELSE Len(Head(cs).buf) + SumLen(Tail(cs))

\* the values occurring in s
Range(s) == { s[j] : j \in 1..Len(s) }

\* the items of s with a value in R in ascending order: the least value of
\* R as often as it occurs in s, then the rest
RECURSIVE SortedRuns(_, _)
SortedRuns(s, R) ==
    IF R = {} THEN <<>>
    ELSE LET v == CHOOSE x \in R : \A y \in R : x <= y
             n == Cardinality({ j \in 1..Len(s) : s[j] = v })
         IN  SubSeq([i \in 1..n |-> v], 1, n) \o SortedRuns(s, R \ {v})

\* list.sort() on a list of integers
ListSort(s) == SortedRuns(s, Range(s))

\* s[lo], s[lo+2], ... (1-based positions), the items a range(.., .., 2) yields
EveryOther(s, lo) ==
    IF lo > Len(s) THEN <<>>
    ELSE SubSeq([i \in 1..((Len(s) - lo) \div 2 + 1) |-> s[lo + 2 * (i - 1)]],
                1, (Len(s) - lo) \div 2 + 1)

NoExc == "none"

-----------------------------------------------------------------------------
(* KLL: kll.py *)

\* Compactor.__init__
KLL_Compactor(alternate) ==
    [buf |-> <<>>, numCompaction |-> 0, offset |-> 0, alternate |-> alternate]

\* Faulty variant of KLL.capacity: the "+ 1" is left out
KLL_capacityNoSlack(k, c, H, height) ==
    LET depth == H - height - 1
    IN  CeilDiv(Pow(c[1], depth) * k, Pow(c[2], depth))

\* KLL.capacity with an explicit H; c is the rational c[1]/c[2]
KLL_capacityAt(k, c, H, height) ==
    LET depth == H - height - 1
    IN  CeilDiv(Pow(c[1], depth) * k, Pow(c[2], depth)) + 1

KLL_capacity(s, height) == KLL_capacityAt(s.k, s.c, s.H, height)

RECURSIVE KLL_sumCapacity(_, _)
KLL_sumCapacity(s, n) ==
    IF n = 0 THEN 0 ELSE KLL_capacity(s, n - 1) + KLL_sumCapacity(s, n - 1)

\* KLL.grow
KLL_grow(s) ==
    LET s1 == [s EXCEPT !.compactors = Append(@, KLL_Compactor(s.alternate))]
        s2 == [s1 EXCEPT !.H = Len(s1.compactors)]
    IN  [s2 EXCEPT !.maxSize = KLL_sumCapacity(s2, s2.H)]

\* KLL.__init__ for valid k and c
KLL_init(k, c, lazy, alternate) ==
    KLL_grow([k |-> k, c |-> c, lazy |-> lazy, alternate |-> alternate,
              compactors |-> <<>>, H |-> 0, size |-> 0, maxSize |-> 0])

\* a float argument p/q, q > 0, compared as Python compares floats
RatLt(a, b) == a[1] * b[2] < b[1] * a[2]

RatLe(a, b) == a[1] * b[2] <= b[1] * a[2]

\* the result of a constructor call: the exception and the object made
Made(exc, obj) == [exc |-> exc, val |-> obj]

\* Faulty variant of KLL(k, c): c = 0.5 is let through
KLL_newLoose(k, c, lazy, alternate) ==
    IF k <= 0 THEN Made("ValueError", <<>>)
    ELSE IF RatLt(c, <<1, 2>>) \/ RatLt(<<1, 1>>, c)
    THEN Made("ValueError", <<>>)
    ELSE Made(NoExc, <<KLL_init(k, c, lazy, alternate)>>)

\* KLL(k, c, lazy, alternate): __init__ with its two range checks
KLL_new(k, c, lazy, alternate) ==
    IF k <= 0 THEN Made("ValueError", <<>>)
    ELSE IF RatLe(c, <<1, 2>>) \/ RatLt(<<1, 1>>, c)
    THEN Made("ValueError", <<>>)
    ELSE Made(NoExc, <<KLL_init(k, c, lazy, alternate)>>)

\* KLT(eps, err): the range check, then the fields and grow().  The
\* AdditiveCompactor takes no keyword arguments, so grow() raises TypeError
\* for err = 'additive'.
KLT_new(eps, err) ==
    IF RatLt(eps, <<1, 1000000>>) \/ RatLt(<<1, 2>>, eps)
    THEN Made("ValueError", <<>>)
    ELSE IF err # "relative" THEN Made("TypeError", <<>>)
    ELSE LET k == (eps[2] \div eps[1]) + 1
         IN  Made(NoExc, <<[eps |-> eps, k |-> k, compactors |-> << <<>> >>,
                            H |-> 1, size |-> 0, maxSize |-> 5 * k]>>)

\* RelativeErrorSketch(eps) of relativeErrorSketch-experimental.py, eps >= 0
REQX_EPS_UPPER_BOUND == <<1, 10>>

REQX_SECTION_SIZE_SCALAR == <<1, 4>>

REQX_INIT_NUMBER_OF_SECTIONS == 2

REQX_new(eps) ==
    IF RatLt(REQX_EPS_UPPER_BOUND, eps) THEN Made("ValueError", <<>>)
    ELSE IF eps[1] = 0 THEN Made("ZeroDivisionError", <<>>)
    ELSE LET sectionSize ==
                 2 * (((REQX_SECTION_SIZE_SCALAR[1] * eps[2])
                        \div (REQX_SECTION_SIZE_SCALAR[2] * eps[1])) + 1)
         IN  Made(NoExc, <<[eps |-> eps, sectionSize |-> sectionSize,
                            always |-> sectionSize,
                            never |-> sectionSize * REQX_INIT_NUMBER_OF_SECTIONS
                                      + sectionSize,
                            compactors |-> << <<>> >>,
                            H |-> 1, size |-> 0]>>)

\* whether Compactor.compact draws random() (else it flips the last offset)
KLL_drawsCoin(c) == ~(c.numCompaction % 2 = 1 /\ c.alternate)

\* Faulty variant of Compactor.compact: the odd last item is not put back
KLL_compactDropTail(c, coin) ==
    LET offset == IF KLL_drawsCoin(c) THEN coin ELSE 1 - c.offset
        sorted == ListSort(c.buf)
        odd    == Len(sorted) % 2 = 1
        body   == IF odd THEN SubSeq(sorted, 1, Len(sorted) - 1) ELSE sorted
    IN  [c   |-> [c EXCEPT !.offset = offset, !.buf = <<>>,
                           !.numCompaction = @ + 1],
         out |-> EveryOther(body, offset + 1)]

\* Compactor.compact with the coin int(random() < 0.5) given:
\* the compactor afterwards and the items it yields
KLL_compact(c, coin) ==
    LET offset == IF KLL_drawsCoin(c) THEN coin ELSE 1 - c.offset
        sorted == ListSort(c.buf)
        odd    == Len(sorted) % 2 = 1
        body   == IF odd THEN SubSeq(sorted, 1, Len(sorted) - 1) ELSE sorted
    IN  [c   |-> [c EXCEPT !.offset = offset,
                           !.buf = IF odd THEN <<sorted[Len(sorted)]>> ELSE <<>>,
                           !.numCompaction = @ + 1],
         out |-> EveryOther(body, offset + 1)]

KLL_coins(c) == IF KLL_drawsCoin(c) THEN {0, 1} ELSE {0}

\* one iteration of the loop of KLL.compress at level h that compacts
KLL_compressLevel(s, h, coin) ==
    LET s1 == IF h + 1 >= s.H THEN KLL_grow(s) ELSE s
        r  == KLL_compact(s1.compactors[h + 1], coin)
        cs == [s1.compactors EXCEPT ![h + 1] = r.c,
                                    ![h + 2] = [@ EXCEPT !.buf = @ \o r.out]]
    IN  [s1 EXCEPT !.compactors = cs, !.size = SumLen(cs)]

\* KLL.compress from level h on; n is len(self.compactors) when the loop began.
\* The set of sketches the call can end in, one per outcome of the coins.
RECURSIVE KLL_compressFrom(_, _, _)
KLL_compressFrom(s, h, n) ==
    IF h >= n THEN {s}
    ELSE IF Len(s.compactors[h + 1].buf) >= KLL_capacity(s, h)
         THEN UNION { IF s.lazy THEN {t} ELSE KLL_compressFrom(t, h + 1, n) :
                      t \in { KLL_compressLevel(s, h, coin) :
                              coin \in KLL_coins(s.compactors[h + 1]) } }
         ELSE KLL_compressFrom(s, h + 1, n)

\* Faulty variant of KLL.compress: no level is compacted
KLL_compressNothing(s) == {s}

KLL_compress(s) == KLL_compressFrom(s, 0, Len(s.compactors))

\* KLL.update: the set of [s, exc] the call can end in
KLL_update(s, item) ==
    LET s1 == [s EXCEPT !.compactors[1].buf = Append(@, item), !.size = @ + 1]
    IN  IF s1.size >= s1.maxSize
        THEN { [s |-> t,
                exc |-> IF t.size < t.maxSize THEN NoExc ELSE "AssertionError"] :
               t \in KLL_compress(s1) }
        ELSE { [s |-> s1, exc |-> NoExc] }

\* Faulty variant of the loop below: self is never grown
KLL_growNever(s, H) == s

\* while self.H < other.H: self.grow()
RECURSIVE KLL_growTo(_, _)
KLL_growTo(s, H) == IF s.H < H THEN KLL_growTo(KLL_grow(s), H) ELSE s

\* Faulty variant of the loop below: "if" in place of "while", one pass
KLL_compressOnce(s) == IF s.size >= s.maxSize THEN KLL_compress(s) ELSE {s}

\* while self.size >= self.maxSize: self.compress()
RECURSIVE KLL_compressLoop(_)
KLL_compressLoop(s) ==
    IF s.size >= s.maxSize
    THEN UNION { KLL_compressLoop(t) : t \in KLL_compress(s) }
    ELSE {s}

\* for h in range(other.H): self.compactors[h].extend(other.compactors[h])
KLL_extendAll(s, other) ==
    [s EXCEPT !.compactors =
        [h \in 1..Len(s.compactors) |->
            IF h <= other.H
            THEN [s.compactors[h] EXCEPT !.buf = @ \o other.compactors[h].buf]
            ELSE s.compactors[h]]]

\* Faulty variant of KLL.merge: the items are moved out of other
KLL_mergeMoving(s, other) ==
    LET s1 == KLL_extendAll(KLL_growTo(s, other.H), other)
        s2 == [s1 EXCEPT !.size = SumLen(s1.compactors)]
        o2 == [other EXCEPT !.compactors =
                  [h \in 1..Len(other.compactors) |->
                      [other.compactors[h] EXCEPT !.buf = <<>>]]]
    IN  { [s |-> t, other |-> o2,
           exc |-> IF t.size < t.maxSize THEN NoExc ELSE "AssertionError"] :
          t \in KLL_compressLoop(s2) }

\* KLL.merge: the set of [s, other, exc] the call can end in, s being self
\* and other the argument object after the call
KLL_merge(s, other) ==
    LET s1 == KLL_extendAll(KLL_growTo(s, other.H), other)
        s2 == [s1 EXCEPT !.size = SumLen(s1.compactors)]
    IN  { [s |-> t, other |-> other,
           exc |-> IF t.size < t.maxSize THEN NoExc ELSE "AssertionError"] :
          t \in KLL_compressLoop(s2) }

\* Faulty variant of the count below: items strictly below value
RECURSIVE KLL_rankItemsStrict(_, _, _)
KLL_rankItemsStrict(buf, value, w) ==
    IF buf = <<>> THEN 0
    ELSE (IF Head(buf) < value THEN w ELSE 0)
         + KLL_rankItemsStrict(Tail(buf), value, w)

\* KLL.rank
RECURSIVE KLL_rankItems(_, _, _)
KLL_rankItems(buf, value, w) ==
    IF buf = <<>> THEN 0
    ELSE (IF Head(buf) <= value THEN w ELSE 0) + KLL_rankItems(Tail(buf), value, w)

\* Faulty variant of the sum below: every level counted with weight 1
RECURSIVE KLL_rankFromFlat(_, _, _)
KLL_rankFromFlat(cs, h, value) ==
    IF h >= Len(cs) THEN 0
    ELSE KLL_rankItems(cs[h + 1].buf, value, 1) + KLL_rankFromFlat(cs, h + 1, value)

RECURSIVE KLL_rankFrom(_, _, _)
KLL_rankFrom(cs, h, value) ==
    IF h >= Len(cs) THEN 0
    ELSE KLL_rankItems(cs[h + 1].buf, value, Pow(2, h)) + KLL_rankFrom(cs, h + 1, value)

KLL_rank(s, value) == KLL_rankFrom(s.compactors, 0, value)

-----------------------------------------------------------------------------
(* cdf() and ranks(): the same code in kll.py and relativeErrorSketch.py *)

\* (item, weight) tuples compare as Python tuples do
PairLeq(a, b) == a[1] < b[1] \/ (a[1] = b[1] /\ a[2] <= b[2])

RECURSIVE InsertPair(_, _)
InsertPair(x, s) ==
    IF s = <<>> THEN <<x>>
    ELSE IF PairLeq(x, Head(s)) THEN <<x>> \o s
    ELSE <<Head(s)>> \o InsertPair(x, Tail(s))

\* itemsAndWeights.sort()
RECURSIVE SortPairs(_)
\* Faulty variant of the sort below: the list as it is
KeepPairs(s) == s

SortPairs(s) == IF s = <<>> THEN <<>> ELSE InsertPair(Head(s), SortPairs(Tail(s)))

\* the loop extending itemsAndWeights with (item, 2**h), from level h on
RECURSIVE itemsAndWeightsFrom(_, _)
itemsAndWeightsFrom(cs, h) ==
    IF h >= Len(cs) THEN <<>>
    ELSE [i \in 1..Len(cs[h + 1].buf) |-> <<cs[h + 1].buf[i], Pow(2, h)>>]
         \o itemsAndWeightsFrom(cs, h + 1)

\* the loop accumulating cumWeight over the sorted pairs
RECURSIVE cumulate(_, _)
cumulate(pairs, cumWeight) ==
    IF pairs = <<>> THEN <<>>
    ELSE <<<<Head(pairs)[1], cumWeight + Head(pairs)[2]>>>>
         \o cumulate(Tail(pairs), cumWeight + Head(pairs)[2])

\* ranks(): the list of (item, cumWeight)
ranks(s) == cumulate(SortPairs(itemsAndWeightsFrom(s.compactors, 0)), 0)

RECURSIVE Gcd(_, _)
Gcd(a, b) == IF b = 0 THEN a ELSE Gcd(b, a % b)

\* float(a)/float(b) for integers a >= 0, b > 0 as the fraction in lowest
\* terms <<numerator, denominator>>; equal floats have equal fractions here
FloatDiv(a, b) == <<a \div Gcd(a, b), b \div Gcd(a, b)>>

\* cdf(): the list of (item, cumWeight/totWeight); on an empty sketch the
\* loop body with the division never runs
cdf(s) ==
    LET iw  == itemsAndWeightsFrom(s.compactors, 0)
        totWeight == SumSeq([i \in 1..Len(iw) |-> iw[i][2]])
        cum == cumulate(SortPairs(iw), 0)
    IN  [i \in 1..Len(cum) |-> <<cum[i][1], FloatDiv(cum[i][2], totWeight)>>]

-----------------------------------------------------------------------------
(* RelativeErrorSketch: relativeErrorSketch.py *)

INIT_NUMBER_OF_SECTIONS == 3
SMALLEST_MEANINGFUL_SECTION_SIZE == 4

\* n >= 2**e; the counters of the model stay far below 2**30
GePow2(n, e) == e < 30 /\ n >= Pow(2, e)

\* n <= 2**e
LePow2(n, e) == e >= 30 \/ n <= Pow(2, e)

RECURSIVE Isqrt(_, _)
Isqrt(x, r) == IF (r + 1) * (r + 1) > x THEN r ELSE Isqrt(x, r + 1)

\* int(sectionSizeF) where sectionSizeF is float(k) divided j times by
\* sqrt(2): floor(k / sqrt(2)^j), one less when k / sqrt(2)^j is a whole
\* number and j > 0, because the double computed is just below it
\* (as CPython computes it for every k <= 17, j <= 15)
IntOfSectionSizeF(f) ==
    LET x == (f.k * f.k) \div Pow(2, f.j)
        r == Isqrt(x, 0)
    IN  IF f.j > 0 /\ (f.k * f.k) % Pow(2, f.j) = 0 /\ r * r = x THEN r - 1 ELSE r

\* RelativeCompactor.__init__; sectionSizeF is [k, j]: float(k) / sqrt(2)^j
REQ_Compactor(sectionSize, height) ==
    [buf |-> <<>>, numCompactions |-> 0, state |-> 0, offset |-> 0,
     sectionSize |-> sectionSize, sectionSizeF |-> [k |-> sectionSize, j |-> 0],
     numSections |-> INIT_NUMBER_OF_SECTIONS, height |-> height]

\* RelativeCompactor.nomCapacity: the value, and whether assert(cap > 1) fails
REQ_nomCapacity(c) == 2 * c.numSections * c.sectionSize

REQ_nomCapacityFails(c) == ~(REQ_nomCapacity(c) > 1)

\* Faulty variant of the operator below: sectionSize is left as it is
REQ_ensureSectionsOnly(c) ==
    IF GePow2(c.numCompactions, c.numSections - 1)
    THEN LET f == [c.sectionSizeF EXCEPT !.j = @ + 1]
         IN  [c EXCEPT !.numSections = 2 * @, !.sectionSizeF = f]
    ELSE c

\* RelativeCompactor.ensureEnoughSections
REQ_ensureEnoughSections(c) ==
    IF GePow2(c.numCompactions, c.numSections - 1)
    THEN LET f == [c.sectionSizeF EXCEPT !.j = @ + 1]
         IN  [c EXCEPT !.numSections = 2 * @, !.sectionSizeF = f,
                       !.sectionSize = IntOfSectionSizeF(f)]
    ELSE c

\* str("{0:b}".format(n)) as a sequence of digits, most significant first
RECURSIVE Binary(_)
Binary(n) == IF n < 2 THEN <<n>> ELSE Binary(n \div 2) \o <<n % 2>>

\* s.rstrip('1')
RECURSIVE RStripOnes(_)
RStripOnes(s) ==
    IF s # <<>> /\ s[Len(s)] = 1 THEN RStripOnes(SubSeq(s, 1, Len(s) - 1)) ELSE s

\* trailing_ones_binary
trailing_ones_binary(n) == Len(Binary(n)) - Len(RStripOnes(Binary(n)))

\* Faulty variant of the start index below: three quarters are compacted
REQ_compactStartQuarter(c, cap) == cap \div 4

\* the start index s of the compacted part before the parity adjustment
REQ_compactStart(c, cap) ==
    IF c.sectionSize < SMALLEST_MEANINGFUL_SECTION_SIZE
    THEN cap \div 2
    ELSE cap \div 2
         + (c.numSections - (trailing_ones_binary(c.state) + 1)) * c.sectionSize

\* Faulty variant of the adjustment below: s as it is
REQ_keepStart(s, len) == s

\* s after "ensure that the compacted part has an even size"
REQ_adjustStart(s, len) ==
    IF (len - s) % 2 = 1 THEN (IF s > 0 THEN s - 1 ELSE s + 1) ELSE s

\* Faulty variant of the test below: a coin for every compaction
REQ_drawsCoinAlways(c) == TRUE

REQ_drawsCoin(c) == ~(c.numCompactions % 2 = 1)

REQ_coins(c) == IF REQ_drawsCoin(c) THEN {0, 1} ELSE {0}

\* Faulty variant of RelativeCompactor.compact: state is not incremented
REQ_compactNoState(c, coin) ==
    LET cap    == REQ_nomCapacity(c)
        sorted == [c EXCEPT !.buf = ListSort(c.buf)]
        small  == c.sectionSize < SMALLEST_MEANINGFUL_SECTION_SIZE
        s0     == REQ_compactStart(c, cap)
        c1     == IF small THEN sorted ELSE REQ_ensureEnoughSections(sorted)
        len    == Len(c.buf)
        s      == REQ_adjustStart(s0, len)
        offset == IF REQ_drawsCoin(c) THEN coin ELSE 1 - c.offset
    IN  IF REQ_nomCapacityFails(c)
        THEN [c |-> c, out |-> <<>>, exc |-> "assert cap > 1"]
        ELSE IF ~(len >= cap)
        THEN [c |-> c, out |-> <<>>, exc |-> "assert len(self) >= cap"]
        ELSE IF ~small /\ ~LePow2(c.numCompactions, c.numSections - 1)
        THEN [c |-> sorted, out |-> <<>>,
              exc |-> "assert numCompactions <= 2**(numSections-1)"]
        ELSE IF ~small /\ ~LePow2(c.state, c.numSections - 1)
        THEN [c |-> sorted, out |-> <<>>,
              exc |-> "assert state <= 2**(numSections-1)"]
        ELSE IF ~(s < len - 1)
        THEN [c |-> c1, out |-> <<>>, exc |-> "assert s < len(self) - 1"]
        ELSE IF ~(s >= cap \div 2 - 1)
        THEN [c |-> c1, out |-> <<>>, exc |-> "assert s >= cap // 2 - 1"]
        ELSE [c |-> [c1 EXCEPT !.offset = offset,
                               !.buf = SubSeq(c1.buf, 1, s),
                               !.numCompactions = @ + 1],
              out |-> EveryOther(SubSeq(c1.buf, s + 1, len), offset + 1),
              exc |-> NoExc]

\* RelativeCompactor.compact with the coin int(random() < 0.5) given: the
\* compactor afterwards, the items yielded and the exception raised, if any.
\* Every assertion precedes the first yield, so a failing one yields nothing.
REQ_compact(c, coin) ==
    LET cap    == REQ_nomCapacity(c)
        sorted == [c EXCEPT !.buf = ListSort(c.buf)]
        small  == c.sectionSize < SMALLEST_MEANINGFUL_SECTION_SIZE
        s0     == REQ_compactStart(c, cap)
        c1     == IF small THEN sorted ELSE REQ_ensureEnoughSections(sorted)
        len    == Len(c.buf)
        s      == REQ_adjustStart(s0, len)
        offset == IF REQ_drawsCoin(c) THEN coin ELSE 1 - c.offset
    IN  IF REQ_nomCapacityFails(c)
        THEN [c |-> c, out |-> <<>>, exc |-> "assert cap > 1"]
        ELSE IF ~(len >= cap)
        THEN [c |-> c, out |-> <<>>, exc |-> "assert len(self) >= cap"]
        ELSE IF ~small /\ ~LePow2(c.numCompactions, c.numSections - 1)
        THEN [c |-> sorted, out |-> <<>>,
              exc |-> "assert numCompactions <= 2**(numSections-1)"]
        ELSE IF ~small /\ ~LePow2(c.state, c.numSections - 1)
        THEN [c |-> sorted, out |-> <<>>,
              exc |-> "assert state <= 2**(numSections-1)"]
        ELSE IF ~(s < len - 1)
        THEN [c |-> c1, out |-> <<>>, exc |-> "assert s < len(self) - 1"]
        ELSE IF ~(s >= cap \div 2 - 1)
        THEN [c |-> c1, out |-> <<>>, exc |-> "assert s >= cap // 2 - 1"]
        ELSE [c |-> [c1 EXCEPT !.offset = offset,
                               !.buf = SubSeq(c1.buf, 1, s),
                               !.numCompactions = @ + 1,
                               !.state = @ + 1],
              out |-> EveryOther(SubSeq(c1.buf, s + 1, len), offset + 1),
              exc |-> NoExc]

\* Faulty variant of the count below: items equal to value
RECURSIVE REQ_countEq(_, _)
REQ_countEq(buf, value) ==
    IF buf = <<>> THEN 0
    ELSE (IF Head(buf) = value THEN 1 ELSE 0) + REQ_countEq(Tail(buf), value)

\* sum(1 for v in self if v <= value)
RECURSIVE REQ_countLeq(_, _)
REQ_countLeq(buf, value) ==
    IF buf = <<>> THEN 0
    ELSE (IF Head(buf) <= value THEN 1 ELSE 0) + REQ_countLeq(Tail(buf), value)

\* RelativeCompactor.rank
REQ_compactorRank(c, value) == REQ_countLeq(c.buf, value)

\* Faulty variant of the operator below: the sum of the two states
BitSum(a, b) == a + b

RECURSIVE BitOr(_, _)
BitOr(a, b) ==
    IF a = 0 THEN b
    ELSE IF b = 0 THEN a
    ELSE (IF a % 2 = 1 \/ b % 2 = 1 THEN 1 ELSE 0) + 2 * BitOr(a \div 2, b \div 2)

\* RelativeCompactor.mergeIntoSelf
REQ_compactorMerge(c, other) ==
    LET c1 == [c EXCEPT !.state = BitOr(c.state, other.state),
                        !.numCompactions = @ + other.numCompactions]
        c2 == REQ_ensureEnoughSections(c1)
    IN  [c2 EXCEPT !.buf = @ \o other.buf]

RECURSIVE REQ_sumNomCapacity(_)
REQ_sumNomCapacity(cs) ==
    IF cs = <<>> THEN 0 ELSE REQ_nomCapacity(Head(cs)) + REQ_sumNomCapacity(Tail(cs))

\* RelativeErrorSketch.updateMaxNomSize: [s, exc]; the sum is not assigned
\* when a nomCapacity() in it raises
REQ_updateMaxNomSize(s) ==
    IF \E h \in 1..Len(s.compactors) : REQ_nomCapacityFails(s.compactors[h])
    THEN [s |-> s, exc |-> "assert cap > 1"]
    ELSE [s |-> [s EXCEPT !.maxNomSize = REQ_sumNomCapacity(s.compactors)],
          exc |-> NoExc]

\* RelativeErrorSketch.grow: [s, exc]
REQ_grow(s) ==
    LET s1 == [s EXCEPT !.compactors = Append(@, REQ_Compactor(s.k, s.H))]
    IN  REQ_updateMaxNomSize([s1 EXCEPT !.H = Len(s1.compactors)])

\* RelativeErrorSketch.__init__
REQ_init(k) ==
    REQ_grow([k |-> k, compactors |-> <<>>, H |-> 0, size |-> 0, N |-> 0,
              maxNomSize |-> 0]).s

\* RelativeErrorSketch(k): __init__, whose grow() raises when the
\* assert(cap > 1) of nomCapacity fails
REQ_new(k) ==
    LET g == REQ_grow([k |-> k, compactors |-> <<>>, H |-> 0, size |-> 0,
                       N |-> 0, maxNomSize |-> 0])
    IN  IF g.exc # NoExc THEN Made(g.exc, <<>>) ELSE Made(NoExc, <<g.s>>)

\* the body of the loop of compress at a level h whose buffer is full, after
\* the grow: the outcomes [s, exc] of compacting h into h+1
REQ_compressLevel(s, h, coin) ==
    LET r  == REQ_compact(s.compactors[h + 1], coin)
        cs == [s.compactors EXCEPT ![h + 1] = r.c,
                                   ![h + 2] = [@ EXCEPT !.buf = @ \o r.out]]
    IN  IF r.exc # NoExc
        THEN [s |-> [s EXCEPT !.compactors[h + 1] = r.c], exc |-> r.exc]
        ELSE [s |-> [s EXCEPT !.compactors = cs, !.size = SumLen(cs)], exc |-> NoExc]

\* the loop of RelativeErrorSketch.compress from level h on; n is
\* len(self.compactors) when the loop began
RECURSIVE REQ_compressFrom(_, _, _, _)
REQ_compressFrom(s, h, n, lazy) ==
    IF h >= n THEN { [s |-> s, exc |-> NoExc] }
    ELSE IF REQ_nomCapacityFails(s.compactors[h + 1])
    THEN { [s |-> s, exc |-> "assert cap > 1"] }
    ELSE IF Len(s.compactors[h + 1].buf) >= REQ_nomCapacity(s.compactors[h + 1])
    THEN LET g == IF h + 1 >= s.H THEN REQ_grow(s) ELSE [s |-> s, exc |-> NoExc]
         IN  IF g.exc # NoExc THEN {g}
             ELSE UNION { IF r.exc # NoExc \/ (lazy /\ r.s.size < r.s.maxNomSize)
                          THEN {r}
                          ELSE REQ_compressFrom(r.s, h + 1, n, lazy) :
                          r \in { REQ_compressLevel(g.s, h, coin) :
                                  coin \in REQ_coins(g.s.compactors[h + 1]) } }
    ELSE REQ_compressFrom(s, h + 1, n, lazy)

\* RelativeErrorSketch.compress: the set of outcomes [s, exc]
REQ_compress(s, lazy) ==
    LET u == REQ_updateMaxNomSize(s)
    IN  IF u.exc # NoExc THEN {u}
        ELSE IF u.s.size < u.s.maxNomSize THEN {u}
        ELSE REQ_compressFrom(u.s, 0, Len(u.s.compactors), lazy)

\* assert(self.size < self.maxNomSize) closing update and mergeIntoSelf
REQ_assertSize(r) ==
    IF r.exc = NoExc /\ ~(r.s.size < r.s.maxNomSize)
    THEN [r EXCEPT !.exc = "assert size < maxNomSize"]
    ELSE r

\* RelativeErrorSketch.update: the set of outcomes [s, exc]
REQ_update(s, item) ==
    LET s1 == [s EXCEPT !.compactors[1].buf = Append(@, item),
                        !.size = @ + 1, !.N = @ + 1]
    IN  { REQ_assertSize(r) :
          r \in IF s1.size >= s1.maxNomSize
                THEN REQ_compress(s1, TRUE)
                ELSE { [s |-> s1, exc |-> NoExc] } }

\* while self.H < other.H: self.grow()
RECURSIVE REQ_growTo(_, _)
REQ_growTo(s, H) ==
    IF s.H < H
    THEN LET g == REQ_grow(s) IN IF g.exc # NoExc THEN g ELSE REQ_growTo(g.s, H)
    ELSE [s |-> s, exc |-> NoExc]

\* for h in range(other.H): self.compactors[h].mergeIntoSelf(other.compactors[h])
REQ_mergeAll(s, other) ==
    [s EXCEPT !.compactors =
        [h \in 1..Len(s.compactors) |->
            IF h <= other.H
            THEN REQ_compactorMerge(s.compactors[h], other.compactors[h])
            ELSE s.compactors[h]]]

\* RelativeErrorSketch.mergeIntoSelf: the set of outcomes [s, other, exc]
REQ_mergeIntoSelf(s, other) ==
    LET g  == REQ_growTo(s, other.H)
        s1 == REQ_mergeAll(g.s, other)
        s2 == [s1 EXCEPT !.N = @ + other.N, !.size = SumLen(s1.compactors)]
    IN  IF g.exc # NoExc THEN { [s |-> g.s, other |-> other, exc |-> g.exc] }
        ELSE { [s |-> REQ_assertSize(r).s, other |-> other,
                exc |-> REQ_assertSize(r).exc] :
               r \in IF s2.size >= s2.maxNomSize
                     THEN REQ_compress(s2, FALSE)
                     ELSE { [s |-> s2, exc |-> NoExc] } }

\* RelativeErrorSketch.merge(one, two): the set of outcomes [one, two, exc,
\* val], val being <<1>> when one is returned, <<2>> when two is, and <<>>
\* when the call raises
REQ_merge(one, two) ==
    IF one.size >= two.size
    THEN { [one |-> r.s, two |-> r.other, exc |-> r.exc,
            val |-> IF r.exc = NoExc THEN <<1>> ELSE <<>>] :
           r \in REQ_mergeIntoSelf(one, two) }
    ELSE { [one |-> r.other, two |-> r.s, exc |-> r.exc,
            val |-> IF r.exc = NoExc THEN <<2>> ELSE <<>>] :
           r \in REQ_mergeIntoSelf(two, one) }

\* RelativeErrorSketch.rank
RECURSIVE REQ_rankFrom(_, _, _)
REQ_rankFrom(cs, h, value) ==
    IF h >= Len(cs) THEN 0
    ELSE REQ_compactorRank(cs[h + 1], value) * Pow(2, h) + REQ_rankFrom(cs, h + 1, value)

REQ_rank(s, value) == REQ_rankFrom(s.compactors, 0, value)

\* ceil(a * getMaximumRSE(k)) = ceil(a * sqrt(8/INIT_NUMBER_OF_SECTIONS) / k):
\* the least m >= lo with INIT_NUMBER_OF_SECTIONS * (m*k)^2 >= 8 * a^2
RECURSIVE REQ_ceilRSE(_, _, _)
REQ_ceilRSE(k, a, lo) ==
    IF INIT_NUMBER_OF_SECTIONS * lo * lo * k * k >= 8 * a * a THEN lo
    ELSE REQ_ceilRSE(k, a, lo + 1)

\* RelativeErrorSketch.getRankUpperBound, numStdDev a natural number:
\* ceil((1 + numStdDev * RSE) * rank) = rank + ceil(numStdDev * rank * RSE)
REQ_getRankUpperBound(s, value, numStdDev) ==
    LET rank == REQ_rank(s, value)
    IN  IF rank <= s.k * INIT_NUMBER_OF_SECTIONS THEN rank
        ELSE rank + REQ_ceilRSE(s.k, numStdDev * rank, 0)

\* RelativeErrorSketch.getRankLowerBound:
\* floor((1 - numStdDev * RSE) * rank) = rank - ceil(numStdDev * rank * RSE)
REQ_getRankLowerBound(s, value, numStdDev) ==
    LET rank == REQ_rank(s, value)
    IN  IF rank <= s.k * INIT_NUMBER_OF_SECTIONS THEN rank
        ELSE rank - REQ_ceilRSE(s.k, numStdDev * rank, 0)

\* Faulty variant of the search below: desiredRank >= rank moves right
RECURSIVE REQ_bisectGe(_, _, _, _, _)
REQ_bisectGe(rk, q, N, i, j) ==
    IF i < j
    THEN LET m == (i + j) \div 2
         IN  IF q[1] * N >= rk[m + 1][2] * q[2]
             THEN REQ_bisectGe(rk, q, N, m + 1, j)
             ELSE REQ_bisectGe(rk, q, N, i, m)
    ELSE i

\* the binary search of quantile over ranks, q = q[1]/q[2] with q[2] a power
\* of two, so that desiredRank = q*N is exact: desiredRank > rank
RECURSIVE REQ_bisect(_, _, _, _, _)
REQ_bisect(rk, q, N, i, j) ==
    IF i < j
    THEN LET m == (i + j) \div 2
         IN  IF q[1] * N > rk[m + 1][2] * q[2]
             THEN REQ_bisect(rk, q, N, m + 1, j)
             ELSE REQ_bisect(rk, q, N, i, m)
    ELSE i

\* Faulty variant of RelativeErrorSketch.quantile: q is not checked
REQ_quantileUnchecked(s, q) ==
    LET rk == ranks(s)
        i  == REQ_bisect(rk, q, s.N, 0, Len(rk))
    IN  IF i >= Len(rk)
        THEN [val |-> <<>>, exc |-> "IndexError"]
        ELSE [val |-> <<rk[i + 1][1]>>, exc |-> NoExc]

\* RelativeErrorSketch.quantile: [val, exc]
REQ_quantile(s, q) ==
    LET rk == ranks(s)
        i  == REQ_bisect(rk, q, s.N, 0, Len(rk))
    IN  IF ~(q[1] >= 0 /\ q[1] <= q[2])
        THEN [val |-> <<>>, exc |-> "assert q >= 0 and q <= 1"]
        ELSE IF i >= Len(rk)
        THEN [val |-> <<>>, exc |-> "IndexError"]
        ELSE [val |-> <<rk[i + 1][1]>>, exc |-> NoExc]

-----------------------------------------------------------------------------
(* GDE: gde.py.  A vector is a tuple of integers. *)

None == -1

\* sum([len(c) for c in self.compactors]) for plain lists
RECURSIVE GDE_sumLen(_)
GDE_sumLen(cs) == IF cs = <<>> THEN 0 ELSE Len(Head(cs)) + GDE_sumLen(Tail(cs))

\* GDE.__init__
GDE_init(k, d) ==
    [k |-> k, d |-> d, n |-> 0, size |-> 0, compactors |-> << <<>> >>,
     max_size |-> k * 1]

\* GDE(k, d): __init__ checks nothing
GDE_new(k, d) == Made(NoExc, <<GDE_init(k, d)>>)

\* np.linalg.norm(vector_1 - vector_2)**2 for integer vectors of one length
RECURSIVE SqDist(_, _)
SqDist(u, v) ==
    IF u = <<>> THEN 0
    ELSE (Head(u) - Head(v)) * (Head(u) - Head(v)) + SqDist(Tail(u), Tail(v))

\* GDE.kernel, exp(-sq), in units of 10^-8.  For up to 8 terms the sign of a
\* sum of +-exp(-sq), sq in {0, 1, 4, 9}, is the sign of the sum of these
\* integers, and the integer sum is 0 only when the terms cancel pairwise.
GDE_kernel(u, v) ==
    LET sq == SqDist(u, v)
    IN  CASE sq = 0 -> 100000000
          [] sq = 1 -> 36787944
          [] sq = 4 -> 1831564
          [] sq = 9 -> 12341
          [] OTHER  -> 0

Sign(x) == IF x > 0 THEN 1 ELSE IF x < 0 THEN -1 ELSE 0

\* delta of the inner loop of compact for item i (1-based) given signs[1..i-1]
RECURSIVE GDE_delta(_, _, _, _)
GDE_delta(buf, signs, i, j) ==
    IF j >= i THEN 0
    ELSE signs[j] * GDE_kernel(buf[i], buf[j]) + GDE_delta(buf, signs, i, j + 1)

\* Faulty variant of the choice below: np.sign(delta), not its negation
GDE_signChoicesSame(buf, signs, i) ==
    LET delta == GDE_delta(buf, signs, i, 1)
    IN  IF delta # 0 THEN {Sign(delta)}
        ELSE IF i <= 4 \/ \A j \in 1..(i - 1) : buf[j] = buf[i] THEN {0}
        ELSE {-1, 0, 1}

\* the values -np.sign(delta) can take for item i.  The doubles cancel
\* exactly when at most three terms are added or all terms are +-1.0; a
\* longer sum of terms that cancel in the reals may round to either side.
GDE_signChoices(buf, signs, i) ==
    LET delta == GDE_delta(buf, signs, i, 1)
    IN  IF delta # 0 THEN {-Sign(delta)}
        ELSE IF i <= 4 \/ \A j \in 1..(i - 1) : buf[j] = buf[i] THEN {0}
        ELSE {-1, 0, 1}

\* the sign vectors the loop of compact can end with, from item i on
RECURSIVE GDE_signsFrom(_, _, _)
GDE_signsFrom(buf, signs, i) ==
    IF i > Len(buf) THEN {signs}
    ELSE UNION { GDE_signsFrom(buf, Append(signs, sg), i + 1) :
                 sg \in GDE_signChoices(buf, signs, i) }

\* the items kept: those with sign >= 0, in order
RECURSIVE GDE_kept(_, _)
GDE_kept(buf, signs) ==
    IF buf = <<>> THEN <<>>
    ELSE (IF Head(signs) >= 0 THEN <<Head(buf)>> ELSE <<>>)
         \o GDE_kept(Tail(buf), Tail(signs))

RemoveAt(s, i) == SubSeq(s, 1, i - 1) \o SubSeq(s, i + 1, Len(s))

\* the orders np.random.shuffle can leave the list in
RECURSIVE Shuffles(_)
Shuffles(s) ==
    IF s = <<>> THEN { <<>> }
    ELSE UNION { { <<s[i]>> \o p : p \in Shuffles(RemoveAt(s, i)) } : i \in 1..Len(s) }

\* GDE.compact: the lists it can yield, over the shuffle, the random first
\* sign and the rounding of tied sums; the compactor itself ends empty
GDE_compact(compactor) ==
    UNION { UNION { { GDE_kept(b, sg) : sg \in GDE_signsFrom(b, <<s1>>, 2) } :
                    s1 \in {1, -1} } :
            b \in Shuffles(compactor) }

\* the first level h (0-based) with len(compactors[h]) >= k, or -1
RECURSIVE GDE_firstLarge(_, _, _)
GDE_firstLarge(cs, k, h) ==
    IF h >= Len(cs) THEN -1
    ELSE IF Len(cs[h + 1]) >= k THEN h
    ELSE GDE_firstLarge(cs, k, h + 1)

\* GDE.first_large_compress: the sketches it can end in
GDE_first_large_compress(s) ==
    LET h  == GDE_firstLarge(s.compactors, s.k, 0)
        cs == IF h >= Len(s.compactors) - 1
              THEN Append(s.compactors, <<>>) ELSE s.compactors
    IN  IF h = -1 THEN {s}
        ELSE { [s EXCEPT !.compactors =
                   [cs EXCEPT ![h + 1] = <<>>, ![h + 2] = @ \o out]] :
               out \in GDE_compact(s.compactors[h + 1]) }

\* Faulty variant of the loop below: no compression
GDE_noCompress(s) == {s}

\* while self.size >= self.max_size: compress, then refresh max_size and size
RECURSIVE GDE_compressLoop(_)
GDE_compressLoop(s) ==
    IF s.size >= s.max_size
    THEN UNION { GDE_compressLoop(
                     [t EXCEPT !.max_size = t.k * Len(t.compactors),
                               !.size = GDE_sumLen(t.compactors)]) :
                 t \in GDE_first_large_compress(s) }
    ELSE {s}

\* Faulty variant of GDE.update: the length of the vector is not checked
GDE_updateUnchecked(s, vector) ==
    LET s1 == IF s.d = None THEN [s EXCEPT !.d = Len(vector)] ELSE s
    IN  { [s |-> [t EXCEPT !.n = @ + 1, !.size = @ + 1,
                           !.compactors[1] = Append(@, vector)],
           exc |-> NoExc] :
          t \in GDE_compressLoop(s1) }

\* GDE.update: the set of outcomes [s, exc]
GDE_update(s, vector) ==
    LET s1 == IF s.d = None THEN [s EXCEPT !.d = Len(vector)] ELSE s
    IN  IF s.d # None /\ Len(vector) # s.d
        THEN { [s |-> s, exc |-> "ValueError"] }
        ELSE { [s |-> [t EXCEPT !.n = @ + 1, !.size = @ + 1,
                                !.compactors[1] = Append(@, vector)],
                exc |-> NoExc] :
               t \in GDE_compressLoop(s1) }

\* Faulty variant of the loops below: other's vectors are put first
GDE_extendAllFront(cs, ocs) ==
    [h \in 1..(IF Len(cs) < Len(ocs) THEN Len(ocs) ELSE Len(cs)) |->
        (IF h <= Len(ocs) THEN ocs[h] ELSE <<>>)
        \o (IF h <= Len(cs) THEN cs[h] ELSE <<>>)]

\* while len(self.compactors) < len(other.compactors): append []; then the
\* zip loop c1.extend(c2)
GDE_extendAll(cs, ocs) ==
    [h \in 1..(IF Len(cs) < Len(ocs) THEN Len(ocs) ELSE Len(cs)) |->
        (IF h <= Len(cs) THEN cs[h] ELSE <<>>)
        \o (IF h <= Len(ocs) THEN ocs[h] ELSE <<>>)]

\* Faulty variant of GDE.merge: other.n is not added to self.n
GDE_mergeNoCount(s, other) ==
    LET s1 == IF s.d = None THEN [s EXCEPT !.d = other.d] ELSE s
        cs == GDE_extendAll(s1.compactors, other.compactors)
        s2 == [s1 EXCEPT !.compactors = cs, !.size = GDE_sumLen(cs)]
    IN  IF other.d = None
        THEN { [s |-> s, other |-> other,
                exc |-> IF other.n = 0 THEN NoExc ELSE "AssertionError"] }
        ELSE IF s.d = None /\ s.n # 0
        THEN { [s |-> s, other |-> other, exc |-> "AssertionError"] }
        ELSE IF s.d # None /\ s.d # other.d
        THEN { [s |-> s, other |-> other, exc |-> "ValueError"] }
        ELSE { [s |-> t, other |-> other, exc |-> NoExc] :
               t \in GDE_compressLoop(s2) }

\* GDE.merge: the set of outcomes [s, other, exc]
GDE_merge(s, other) ==
    LET s1 == IF s.d = None THEN [s EXCEPT !.d = other.d] ELSE s
        cs == GDE_extendAll(s1.compactors, other.compactors)
        s2 == [s1 EXCEPT !.compactors = cs, !.size = GDE_sumLen(cs),
                         !.n = @ + other.n]
    IN  IF other.d = None
        THEN { [s |-> s, other |-> other,
                exc |-> IF other.n = 0 THEN NoExc ELSE "AssertionError"] }
        ELSE IF s.d = None /\ s.n # 0
        THEN { [s |-> s, other |-> other, exc |-> "AssertionError"] }
        ELSE IF s.d # None /\ s.d # other.d
        THEN { [s |-> s, other |-> other, exc |-> "ValueError"] }
        ELSE { [s |-> t, other |-> other, exc |-> NoExc] :
               t \in GDE_compressLoop(s2) }

\* The JSON text of a number: None is written null, an integer as its sign
\* and its decimal digits, most significant first.
RECURSIVE JSON_digits(_)
JSON_digits(n) ==
    IF n < 10 THEN <<n>> ELSE Append(JSON_digits(n \div 10), n % 10)

JSON_dumps(x) ==
    IF x = None
    THEN [null |-> TRUE, neg |-> FALSE, digits |-> <<>>]
    ELSE [null |-> FALSE, neg |-> x < 0,
          digits |-> JSON_digits(IF x < 0 THEN -x ELSE x)]

RECURSIVE JSON_number(_)
JSON_number(digits) ==
    IF digits = <<>> THEN 0
    ELSE 10 * JSON_number(SubSeq(digits, 1, Len(digits) - 1))
         + digits[Len(digits)]

JSON_loads(j) ==
    IF j.null THEN None
    ELSE IF j.neg THEN -JSON_number(j.digits) ELSE JSON_number(j.digits)

\* GDE.to_string: the JSON object with the keys d, k, n and compactors
GDE_to_string(s) ==
    [d |-> JSON_dumps(s.d), k |-> JSON_dumps(s.k), n |-> JSON_dumps(s.n),
     compactors |->
        [h \in 1..Len(s.compactors) |->
            [i \in 1..Len(s.compactors[h]) |->
                [j \in 1..Len(s.compactors[h][i]) |->
                    JSON_dumps(s.compactors[h][i][j])]]]]

\* GDE.from_string on the object s
GDE_from_string(s, json_string) ==
    LET cs == [h \in 1..Len(json_string.compactors) |->
                [i \in 1..Len(json_string.compactors[h]) |->
                    [j \in 1..Len(json_string.compactors[h][i]) |->
                        JSON_loads(json_string.compactors[h][i][j])]]]
    IN  [s EXCEPT !.k = JSON_loads(json_string.k),
                  !.d = JSON_loads(json_string.d),
                  !.n = JSON_loads(json_string.n),
                  !.compactors = cs,
                  !.size = GDE_sumLen(cs),
                  !.max_size = JSON_loads(json_string.k) * Len(cs)]

\* GDE(): the default k
GDE_DEFAULT_K == 128

-----------------------------------------------------------------------------
(* The calls as actions *)

\* The constructor arguments the model draws from, with the stream fed to
\* the sketches: its item values (items) and its length (maxN).
\* KLL's c is the default 2/3.
KLL_Configs ==
    [variant : {"kll"}, k : 1..MaxK, c : {<<2, 3>>},
     lazy : BOOLEAN, alternate : BOOLEAN, d : {None},
     items : {Items}, maxN : {MaxN}]

REQ_Configs ==
    [variant : {"req"}, k : 1..REQ_MaxK, c : {<<1, 1>>},
     lazy : {TRUE}, alternate : {TRUE}, d : {None},
     items : {Items}, maxN : {MaxN}]

GDE_Configs ==
    [variant : {"gde"}, k : 1..MaxK, c : {<<1, 1>>},
     lazy : {TRUE}, alternate : {TRUE}, d : {None},
     items : {Items}, maxN : {MaxN}]

\* relativeErrorSketch-experimental.py, the deterministic schedule.
\* RelativeCompactor.__init__ with the keyword arguments grow() passes
REQX_Compactor(s) ==
    [buf |-> <<>>, numCompactions |-> 0, state |-> 0, offset |-> 0,
     alternate |-> s.alternate, sectionSize |-> s.sectionSize,
     sectionSizeF |-> [k |-> s.sectionSize, j |-> 0],
     numSections |-> s.initNumSections, always |-> s.always,
     never |-> s.never, sizeOfNeverPartChanges |-> s.sizeOfNeverPartChanges,
     height |-> s.H]

\* RelativeCompactor.capacity
REQX_capacity(c) == c.never + c.numSections * c.sectionSize + c.always

\* "make the number of sections larger"
REQX_moreSections(c) ==
    IF GePow2(c.numCompactions, c.numSections)
    THEN LET f  == [c.sectionSizeF EXCEPT !.j = @ + 1]
             c1 == [c EXCEPT !.numSections = 2 * @, !.sectionSizeF = f,
                             !.sectionSize = IntOfSectionSizeF(f)]
             c2 == [c1 EXCEPT !.always = c1.sectionSize]
         IN  IF c.sizeOfNeverPartChanges
             THEN [c2 EXCEPT !.never = c2.sectionSize * c2.numSections + c2.always]
             ELSE c2
    ELSE c

\* the start index s chosen by the deterministic schedule
REQX_compactStart(c) ==
    IF c.sectionSize >= SMALLEST_MEANINGFUL_SECTION_SIZE
    THEN c.never + (c.numSections - trailing_ones_binary(c.state)) * c.sectionSize
    ELSE c.never

\* self[i] for a list of len items, from 1: a negative i counts from the end
PyIndex(len, i) == IF i < 0 THEN len + i + 1 ELSE i + 1

\* [self[i] for i in range(start, len(self), 2)]
PyEveryOther(buf, start) ==
    LET n == IF start >= Len(buf) THEN 0 ELSE (Len(buf) - start + 1) \div 2
    IN  SubSeq([j \in 1..n |-> buf[PyIndex(Len(buf), start + 2 * (j - 1))]], 1, n)

\* self[s:] = []
PyDelFrom(buf, s) ==
    SubSeq(buf, 1, IF s >= 0 THEN s ELSE IF Len(buf) + s > 0 THEN Len(buf) + s ELSE 0)

\* RelativeCompactor.compact with the coin int(random() < 0.5) given: the
\* compactor afterwards, the items yielded, the exception raised, and what
\* the compaction used: the start index s, len(self), and never and the
\* height as they were when s was chosen
REQX_compact(c, coin) ==
    LET cap    == REQX_capacity(c)
        len    == Len(c.buf)
        sorted == [c EXCEPT !.buf = ListSort(c.buf)]
        c1     == IF c.sectionSize >= SMALLEST_MEANINGFUL_SECTION_SIZE
                  THEN REQX_moreSections(sorted) ELSE sorted
        s      == REQ_adjustStart(REQX_compactStart(c), len)
        offset == IF c.numCompactions % 2 = 1 /\ c.alternate
                  THEN 1 - c.offset ELSE coin
        used   == [s |-> s, len |-> len, never |-> c.never, height |-> c.height]
    IN  IF ~(cap > 1)
        THEN [c |-> c, out |-> <<>>, exc |-> "assert cap > 1", used |-> <<>>]
        ELSE IF ~(len >= cap)
        THEN [c |-> c, out |-> <<>>, exc |-> "assert len(self) >= capacity",
              used |-> <<>>]
        ELSE IF ~(s < len - 1)
        THEN [c |-> c1, out |-> <<>>, exc |-> "assert s < len(self) - 1",
              used |-> <<used>>]
        ELSE IF s + offset < -len
        THEN [c |-> [c1 EXCEPT !.offset = offset], out |-> <<>>,
              exc |-> "IndexError", used |-> <<used>>]
        ELSE [c |-> [c1 EXCEPT !.offset = offset,
                               !.buf = PyDelFrom(c1.buf, s),
                               !.numCompactions = @ + 1,
                               !.state = @ + 1],
              out |-> PyEveryOther(c1.buf, s + offset),
              exc |-> NoExc, used |-> <<used>>]

RECURSIVE REQX_sumCapacity(_)
REQX_sumCapacity(cs) ==
    IF cs = <<>> THEN 0 ELSE REQX_capacity(Head(cs)) + REQX_sumCapacity(Tail(cs))

\* RelativeErrorSketch.updateMaxSize
REQX_updateMaxSize(s) == [s EXCEPT !.maxSize = REQX_sumCapacity(s.compactors)]

\* RelativeErrorSketch.grow
REQX_grow(s) ==
    LET s1 == [s EXCEPT !.compactors = Append(@, REQX_Compactor(s))]
    IN  REQX_updateMaxSize([s1 EXCEPT !.H = Len(s1.compactors)])

\* RelativeErrorSketch(sectionSize=sectionSize): always and never get
\* their defaults
REQX_init(sectionSize) ==
    REQX_grow([sectionSize |-> sectionSize, always |-> sectionSize,
               never |-> sectionSize * REQX_INIT_NUMBER_OF_SECTIONS + sectionSize,
               sizeOfNeverPartChanges |-> TRUE,
               initNumSections |-> REQX_INIT_NUMBER_OF_SECTIONS,
               lazy |-> TRUE, alternate |-> TRUE,
               compactors |-> <<>>, H |-> 0, size |-> 0, maxSize |-> 0])

\* the loop of compress from level h on; n is len(self.compactors) when the
\* loop began, r the outcome [s, exc, log] so far, log listing what the
\* compactions used
RECURSIVE REQX_compressFrom(_, _, _, _)
REQX_compressFrom(r, h, n, lazy) ==
    IF h >= n THEN {r}
    ELSE IF ~(REQX_capacity(r.s.compactors[h + 1]) > 1)
    THEN { [r EXCEPT !.exc = "assert cap > 1"] }
    ELSE IF Len(r.s.compactors[h + 1].buf) >= REQX_capacity(r.s.compactors[h + 1])
    THEN LET g == IF h + 1 >= r.s.H THEN REQX_grow(r.s) ELSE r.s
         IN  UNION {
               LET m  == REQX_compact(g.compactors[h + 1], coin)
                   cs == [g.compactors EXCEPT
                             ![h + 1] = m.c,
                             ![h + 2] = [@ EXCEPT !.buf = @ \o m.out]]
                   t  == [s   |-> IF m.exc # NoExc
                                  THEN [g EXCEPT !.compactors[h + 1] = m.c]
                                  ELSE [g EXCEPT !.compactors = cs,
                                                 !.size = SumLen(cs)],
                          exc |-> m.exc,
                          log |-> r.log \o m.used]
               IN  IF t.exc # NoExc \/ (lazy /\ t.s.size < t.s.maxSize)
                   THEN {t}
                   ELSE REQX_compressFrom(t, h + 1, n, lazy) :
               coin \in {0, 1} }
    ELSE REQX_compressFrom(r, h + 1, n, lazy)

\* RelativeErrorSketch.compress: the set of outcomes [s, exc, log]
REQX_compress(s, lazy) ==
    LET u == REQX_updateMaxSize(s)
    IN  IF u.size < u.maxSize THEN { [s |-> u, exc |-> NoExc, log |-> <<>>] }
        ELSE REQX_compressFrom([s |-> u, exc |-> NoExc, log |-> <<>>],
                               0, Len(u.compactors), lazy)

\* assert(self.size < self.maxSize) closing update and mergeIntoSelf
REQX_assertSize(r) ==
    IF r.exc = NoExc /\ ~(r.s.size < r.s.maxSize)
    THEN [r EXCEPT !.exc = "assert size < maxSize"]
    ELSE r

\* RelativeErrorSketch.update: the set of outcomes [s, exc, log]
REQX_update(s, item) ==
    LET s1 == [s EXCEPT !.compactors[1].buf = Append(@, item), !.size = @ + 1]
    IN  { REQX_assertSize(r) :
          r \in IF s1.size >= s1.maxSize
                THEN REQX_compress(s1, s1.lazy)
                ELSE { [s |-> s1, exc |-> NoExc, log |-> <<>>] } }

\* while self.H < other.H: self.grow()
RECURSIVE REQX_growTo(_, _)
REQX_growTo(s, H) == IF s.H < H THEN REQX_growTo(REQX_grow(s), H) ELSE s

\* the loop of mergeIntoSelf over the heights of other
REQX_mergeAll(s, other) ==
    [s EXCEPT !.compactors =
        [h \in 1..Len(s.compactors) |->
            IF h <= other.H
            THEN [s.compactors[h] EXCEPT
                     !.state = BitOr(@, other.compactors[h].state),
                     !.numCompactions = @ + other.compactors[h].numCompactions,
                     !.buf = @ \o other.compactors[h].buf]
            ELSE s.compactors[h]]]

\* RelativeErrorSketch.mergeIntoSelf: the set of outcomes [s, exc, log]
REQX_mergeIntoSelf(s, other) ==
    LET s1 == REQX_mergeAll(REQX_growTo(s, other.H), other)
        s2 == [s1 EXCEPT !.size = SumLen(s1.compactors)]
    IN  { REQX_assertSize(r) :
          r \in IF s2.size >= s2.maxSize
                THEN REQX_compress(s2, FALSE)
                ELSE { [s |-> s2, exc |-> NoExc, log |-> <<>>] } }

\* quantilesSketch.py (Python 2).  A compactor is the list of its items.
\* QuantilesSketch.capacity
QS_capacity(s, hight) ==
    LET depth == s.H - hight - 1
        x     == CeilDiv(Pow(s.c[1], depth) * s.k, Pow(s.c[2], depth))
    IN  IF x < 2 THEN 2 ELSE x

RECURSIVE QS_sumCapacity(_, _)
QS_sumCapacity(s, n) ==
    IF n = 0 THEN 0 ELSE QS_capacity(s, n - 1) + QS_sumCapacity(s, n - 1)

\* QuantilesSketch.grow
QS_grow(s) ==
    LET s1 == [s EXCEPT !.compactors = Append(@, <<>>)]
        s2 == [s1 EXCEPT !.H = Len(s1.compactors)]
    IN  [s2 EXCEPT !.maxSize = QS_sumCapacity(s2, s2.H)]

\* QuantilesSketch.__init__
QS_init(k, c) ==
    QS_grow([k |-> k, c |-> c, compactors |-> <<>>, H |-> 0, maxSize |-> 0])

\* sum(len(c) for c in self.compactors)
QS_size(s) == GDE_sumLen(s.compactors)

\* compactor.compact with the coin random() < 0.5 given: the list is sorted
\* and popped from its end two items at a time, the second popped being
\* yielded when coin = 1 and the first when coin = 0; one item stays when
\* the length is odd
QS_compact(buf, coin) ==
    LET sorted == ListSort(buf)
        n      == Len(sorted) \div 2
    IN  [c   |-> SubSeq(sorted, 1, Len(sorted) % 2),
         out |-> SubSeq([j \in 1..n |-> sorted[Len(sorted) - 2 * (j - 1) - coin]],
                        1, n)]

\* the loop of QuantilesSketch.compress from height h on: the outcomes
\* [s, exc]; self.compactors[h] raises IndexError when h has passed the top
RECURSIVE QS_compressFrom(_, _)
QS_compressFrom(s, h) ==
    IF ~(QS_size(s) > s.maxSize) THEN { [s |-> s, exc |-> NoExc] }
    ELSE IF h >= Len(s.compactors)
    THEN { [s |-> s, exc |-> "IndexError: self.compactors[h]"] }
    ELSE IF Len(s.compactors[h + 1]) >= QS_capacity(s, h)
    THEN LET g == IF h + 1 >= s.H THEN QS_grow(s) ELSE s
         IN  UNION { LET r == QS_compact(g.compactors[h + 1], coin)
                     IN  QS_compressFrom(
                             [g EXCEPT !.compactors[h + 1] = r.c,
                                       !.compactors[h + 2] = @ \o r.out],
                             h + 1) :
                     coin \in {0, 1} }
    ELSE QS_compressFrom(s, h + 1)

\* QuantilesSketch.compress
QS_compress(s) == QS_compressFrom(s, 0)

\* QuantilesSketch.update: the set of outcomes [s, exc]
QS_update(s, item) ==
    LET s1 == [s EXCEPT !.compactors[1] = Append(@, item)]
    IN  IF QS_size(s1) > s1.maxSize
        THEN QS_compress(s1)
        ELSE { [s |-> s1, exc |-> NoExc] }

\* while self.H < other.H: self.grow()
RECURSIVE QS_growTo(_, _)
QS_growTo(s, H) == IF s.H < H THEN QS_growTo(QS_grow(s), H) ELSE s

\* for h in xrange(self.H): self.compactors[h].extend(other.compactors[h]),
\* as far as other has compactors
QS_extendAll(s, other) ==
    [s EXCEPT !.compactors =
        [h \in 1..Len(s.compactors) |->
            IF h <= Len(other.compactors)
            THEN s.compactors[h] \o other.compactors[h]
            ELSE s.compactors[h]]]

\* QuantilesSketch.merge: the set of outcomes [s, exc]; the loop runs over
\* self.H heights and other.compactors[h] raises IndexError at the first
\* height other does not have
QS_merge(s, other) ==
    LET s1 == QS_extendAll(QS_growTo(s, other.H), other)
    IN  IF s1.H > Len(other.compactors)
        THEN { [s |-> s1, exc |-> "IndexError: other.compactors[h]"] }
        ELSE QS_compress(s1)

\* puffergoat.py and stairwaytoheaven.py.  A box [x1, x2, y1, y2] is a
\* record; -inf and inf are integers below and above every x fed.
NegInf == 0

PosInf == PG_MaxItem + 1

\* PufferGoat.__init__ and StairwayToHeaven.__init__
PG_init(max_size) ==
    [max_height |-> 0, max_size |-> max_size, n |-> 0,
     x_min |-> PosInf, x_max |-> NegInf,
     items |-> << [x1 |-> NegInf, x2 |-> PosInf, y1 |-> 0, y2 |-> 0] >>]

\* bisect.bisect_left([item[0] for item in items], x): the number of boxes
\* whose x1 is below x, the x1 being in ascending order
PG_bisect_left(items, x) == Cardinality({ j \in 1..Len(items) : items[j].x1 < x })

\* update up to the test of the size, for x above -inf: the box before
\* position i is split at x, and the boxes from i on are raised by one
PG_insert(s, x) ==
    LET i   == PG_bisect_left(s.items, x)
        old == s.items
        new == [j \in 1..(Len(old) + 1) |->
                   IF j < i THEN old[j]
                   ELSE IF j = i THEN [old[i] EXCEPT !.x2 = x]
                   ELSE IF j = i + 1
                   THEN [old[i] EXCEPT !.x1 = x, !.y1 = @ + 1, !.y2 = @ + 1]
                   ELSE [old[j - 1] EXCEPT !.y1 = @ + 1, !.y2 = @ + 1]]
    IN  [s EXCEPT !.x_max = IF x > @ THEN x ELSE @,
                  !.x_min = IF x < @ THEN x ELSE @,
                  !.n = @ + 1,
                  !.items = SubSeq(new, 1, Len(old) + 1)]

\* h of the loop of sqweeze for the pair (i, i+1), i from 0
PG_h(items, i) == items[i + 2].y2 - items[i + 1].y1

\* the last three statements of sqweeze: the pair (best_i, best_i + 1)
\* becomes one box
PG_mergePair(s, best_i) ==
    [s EXCEPT !.items =
        SubSeq(s.items, 1, best_i)
        \o << [s.items[best_i + 1] EXCEPT !.x2 = s.items[best_i + 2].x2,
                                          !.y2 = s.items[best_i + 2].y2] >>
        \o SubSeq(s.items, best_i + 3, Len(s.items))]

\* Faulty variant of PufferGoat.sqweeze: the first pair is merged
PG_sqweezeFirst(s) == PG_mergePair(s, 0)

\* PufferGoat.sqweeze: best_i is the first i whose h is the least
PG_sqweeze(s) ==
    LET best_i == CHOOSE i \in 0..(Len(s.items) - 2) :
                     /\ \A j \in 0..(Len(s.items) - 2) :
                           PG_h(s.items, i) <= PG_h(s.items, j)
                     /\ \A j \in 0..(i - 1) : PG_h(s.items, j) > PG_h(s.items, i)
    IN  PG_mergePair(s, best_i)

\* PufferGoat.update: the object after the call, which returns None
PG_update(s, x) ==
    LET s1 == PG_insert(s, x)
    IN  IF Len(s1.items) > s1.max_size
        THEN [s |-> PG_sqweeze(s1), val |-> None]
        ELSE [s |-> s1, val |-> None]

\* StairwayToHeaven.sqweeze with choose_type 'random': best_is lists the
\* indices whose h is the least, and choice draws one; the outcomes [s, val]
STH_sqweeze(s) ==
    LET best_is == { i \in 0..(Len(s.items) - 2) :
                       \A j \in 0..(Len(s.items) - 2) :
                          PG_h(s.items, i) <= PG_h(s.items, j) }
    IN  { [s |-> PG_mergePair(s, best_i), val |-> best_i + 1] : best_i \in best_is }

\* StairwayToHeaven.update: the outcomes [s, val], val the index returned
STH_update(s, x) ==
    LET s1 == PG_insert(s, x)
    IN  IF Len(s1.items) > s1.max_size
        THEN STH_sqweeze(s1)
        ELSE { [s |-> s1, val |-> None] }

New(g) ==
    CASE g.variant = "kll" -> KLL_init(g.k, g.c, g.lazy, g.alternate)
      [] g.variant = "req" -> REQ_init(g.k)
      [] g.variant = "gde" -> GDE_init(g.k, g.d)
      [] g.variant = "reqx" -> REQX_init(g.k)
      [] g.variant = "qs" -> QS_init(g.k, g.c)
      [] g.variant = "pg" -> PG_init(g.k)
      [] g.variant = "sth" -> PG_init(g.k)

\* the vectors given to GDE.update: one coordinate, and one of two
Vectors == { <<x>> : x \in cfg.items } \cup { <<1, 1>> }

\* the query values given to rank: the items and 0, which is below them all
QueryValues == 0..MaxItem

\* the q given to quantile, as fractions with a power of two below
Quantiles == { <<-1, 4>>, <<0, 1>>, <<1, 4>>, <<1, 2>>, <<3, 4>>, <<1, 1>>, <<5, 4>> }

\* the outcome of a call on sk[self]
Ret(op, self, exc, val) == [op |-> op, self |-> self, exc |-> exc, val |-> val]

InitWith(configs) ==
    /\ cfg \in configs
    /\ sk = [i \in Sketches |-> New(cfg)]
    /\ ins = [i \in Sketches |-> 0]
    /\ fed = [i \in Sketches |-> [x \in cfg.items |-> 0]]
    /\ ret = Ret("new", 1, NoExc, <<>>)

Init == InitWith(KLL_Configs \cup REQ_Configs \cup GDE_Configs)

\* stream items fed so far count against maxN; a merge must leave self
\* summarising at most maxN items
CanUpdate == ins[1] + ins[2] < cfg.maxN

CanMerge(i) == ins[i] + ins[Other(i)] <= cfg.maxN

\* the items of two streams together
FedSum(f, g) == [x \in DOMAIN f |-> f[x] + g[x]]

\* sk[i].update(item) of the variant's class
KLLUpdate(i, item) ==
    /\ cfg.variant = "kll"
    /\ CanUpdate
    /\ \E r \in KLL_update(sk[i], item) :
          /\ sk' = [sk EXCEPT ![i] = r.s]
          /\ ret' = Ret("update", i, r.exc, <<>>)
    /\ ins' = [ins EXCEPT ![i] = @ + 1]
    /\ fed' = [fed EXCEPT ![i][item] = @ + 1]
    /\ UNCHANGED cfg

REQUpdate(i, item) ==
    /\ cfg.variant = "req"
    /\ CanUpdate
    /\ \E r \in REQ_update(sk[i], item) :
          /\ sk' = [sk EXCEPT ![i] = r.s]
          /\ ret' = Ret("update", i, r.exc, <<>>)
    /\ ins' = [ins EXCEPT ![i] = @ + 1]
    /\ fed' = [fed EXCEPT ![i][item] = @ + 1]
    /\ UNCHANGED cfg

GDEUpdate(i, vector) ==
    /\ cfg.variant = "gde"
    /\ CanUpdate
    /\ \E r \in GDE_update(sk[i], vector) :
          /\ sk' = [sk EXCEPT ![i] = r.s]
          /\ ret' = Ret("update", i, r.exc, <<vector>>)
          /\ ins' = [ins EXCEPT ![i] = @ + (r.s.n - sk[i].n)]
    /\ UNCHANGED <<cfg, fed>>

\* sk[i].merge(sk[j]) / sk[i].mergeIntoSelf(sk[j]), j the other sketch
KLLMerge(i) ==
    /\ cfg.variant = "kll"
    /\ CanMerge(i)
    /\ \E r \in KLL_merge(sk[i], sk[Other(i)]) :
          /\ sk' = [sk EXCEPT ![i] = r.s, ![Other(i)] = r.other]
          /\ ret' = Ret("merge", i, r.exc, <<>>)
    /\ ins' = [ins EXCEPT ![i] = @ + ins[Other(i)]]
    /\ fed' = [fed EXCEPT ![i] = FedSum(fed[i], fed[Other(i)])]
    /\ UNCHANGED cfg

REQMerge(i) ==
    /\ cfg.variant = "req"
    /\ CanMerge(i)
    /\ \E r \in REQ_mergeIntoSelf(sk[i], sk[Other(i)]) :
          /\ sk' = [sk EXCEPT ![i] = r.s, ![Other(i)] = r.other]
          /\ ret' = Ret("merge", i, r.exc, <<>>)
          /\ ins' = [ins EXCEPT ![i] = @ + (r.s.N - sk[i].N)]
          /\ fed' = IF r.s.N = sk[i].N THEN fed
                    ELSE [fed EXCEPT ![i] = FedSum(fed[i], fed[Other(i)])]
    /\ UNCHANGED cfg

\* RelativeErrorSketch.merge(sk[i], sk[j]), j the other sketch; ret.val names
\* the sketch returned
REQStaticMerge(i) ==
    /\ cfg.variant = "req"
    /\ CanMerge(i)
    /\ \E r \in REQ_merge(sk[i], sk[Other(i)]) :
          /\ sk' = [sk EXCEPT ![i] = r.one, ![Other(i)] = r.two]
          /\ ret' = Ret("mergeStatic", i, r.exc,
                        IF r.val = <<1>> THEN <<i>>
                        ELSE IF r.val = <<2>> THEN <<Other(i)>> ELSE <<>>)
          /\ ins' = [j \in Sketches |-> ins[j] + (r.one.N - sk[i].N)
                                              * (IF j = i THEN 1 ELSE 0)
                                            + (r.two.N - sk[Other(i)].N)
                                              * (IF j = i THEN 0 ELSE 1)]
          /\ fed' = [j \in Sketches |->
                        IF (j = i /\ r.one.N # sk[i].N)
                           \/ (j # i /\ r.two.N # sk[Other(i)].N)
                        THEN FedSum(fed[j], fed[Other(j)])
                        ELSE fed[j]]
    /\ UNCHANGED cfg

GDEMerge(i) ==
    /\ cfg.variant = "gde"
    /\ CanMerge(i)
    /\ \E r \in GDE_merge(sk[i], sk[Other(i)]) :
          /\ sk' = [sk EXCEPT ![i] = r.s, ![Other(i)] = r.other]
          /\ ret' = Ret("merge", i, r.exc, <<>>)
          /\ ins' = [ins EXCEPT ![i] = @ + (r.s.n - sk[i].n)]
    /\ UNCHANGED <<cfg, fed>>

\* the queries: each returns the object after the call with its result
KLL_rankCall(s, value) == [s |-> s, val |-> KLL_rank(s, value), exc |-> NoExc]

KLL_ranksCall(s) == [s |-> s, val |-> ranks(s), exc |-> NoExc]

KLL_cdfCall(s) == [s |-> s, val |-> cdf(s), exc |-> NoExc]

REQ_rankCall(s, value) == [s |-> s, val |-> REQ_rank(s, value), exc |-> NoExc]

REQ_ranksCall(s) == [s |-> s, val |-> ranks(s), exc |-> NoExc]

REQ_cdfCall(s) == [s |-> s, val |-> cdf(s), exc |-> NoExc]

REQ_quantileCall(s, q) ==
    [s |-> s, val |-> REQ_quantile(s, q).val, exc |-> REQ_quantile(s, q).exc]

Call(i, op, arg, r) ==
    /\ sk' = [sk EXCEPT ![i] = r.s]
    /\ ret' = [Ret(op, i, r.exc, r.val) EXCEPT !.val = <<arg, r.val>>]
    /\ UNCHANGED <<cfg, ins, fed>>

KLLRank(i, value) ==
    cfg.variant = "kll" /\ Call(i, "rank", value, KLL_rankCall(sk[i], value))

KLLRanks(i) == cfg.variant = "kll" /\ Call(i, "ranks", <<>>, KLL_ranksCall(sk[i]))

KLLCdf(i) == cfg.variant = "kll" /\ Call(i, "cdf", <<>>, KLL_cdfCall(sk[i]))

REQRank(i, value) ==
    cfg.variant = "req" /\ Call(i, "rank", value, REQ_rankCall(sk[i], value))

REQRanks(i) == cfg.variant = "req" /\ Call(i, "ranks", <<>>, REQ_ranksCall(sk[i]))

REQCdf(i) == cfg.variant = "req" /\ Call(i, "cdf", <<>>, REQ_cdfCall(sk[i]))

REQQuantile(i, q) ==
    cfg.variant = "req" /\ Call(i, "quantile", q, REQ_quantileCall(sk[i], q))

\* the numStdDev given to the rank bounds
NumStdDevs == 0..2

REQ_getRankUpperBoundCall(s, value, numStdDev) ==
    [s |-> s, val |-> REQ_getRankUpperBound(s, value, numStdDev), exc |-> NoExc]

REQ_getRankLowerBoundCall(s, value, numStdDev) ==
    [s |-> s, val |-> REQ_getRankLowerBound(s, value, numStdDev), exc |-> NoExc]

REQGetRankUpperBound(i, value, numStdDev) ==
    /\ cfg.variant = "req"
    /\ Call(i, "getRankUpperBound", <<value, numStdDev>>,
            REQ_getRankUpperBoundCall(sk[i], value, numStdDev))

REQGetRankLowerBound(i, value, numStdDev) ==
    /\ cfg.variant = "req"
    /\ Call(i, "getRankLowerBound", <<value, numStdDev>>,
            REQ_getRankLowerBoundCall(sk[i], value, numStdDev))

\* Both sketches are fed and merged into each other; the queries are put to
\* sk[1], which by symmetry takes every state sk[2] takes.
Next ==
    \/ \E i \in Sketches :
        \/ \E item \in cfg.items : KLLUpdate(i, item)
        \/ KLLMerge(i)
        \/ \E item \in cfg.items : REQUpdate(i, item)
        \/ REQMerge(i)
        \/ REQStaticMerge(i)
        \/ \E vector \in Vectors : GDEUpdate(i, vector)
        \/ GDEMerge(i)
    \/ \E value \in QueryValues : KLLRank(1, value)
    \/ KLLRanks(1)
    \/ KLLCdf(1)
    \/ \E value \in QueryValues : REQRank(1, value)
    \/ REQRanks(1)
    \/ REQCdf(1)
    \/ \E q \in Quantiles : REQQuantile(1, q)

Spec == Init /\ [][Next]_vars

\* Long runs of RelativeErrorSketch(k = 1) over a stream of one repeated
\* item: the control flow of the sketch never depends on the item values.
REQ_DeepConfigs ==
    [variant : {"req"}, k : {1}, c : {<<1, 1>>},
     lazy : {TRUE}, alternate : {TRUE}, d : {None},
     items : {{1}}, maxN : {DeepMaxN}]

InitReqDeep == InitWith(REQ_DeepConfigs)

NextReqDeep ==
    \E i \in Sketches :
        \/ \E item \in cfg.items : REQUpdate(i, item)
        \/ REQMerge(i)
        \/ REQStaticMerge(i)

SpecReqDeep == InitReqDeep /\ [][NextReqDeep]_vars

\* RelativeErrorSketch under update and mergeIntoSelf alone: k = 1 with two
\* item values, and a k whose sections are large enough for the
\* deterministic compaction schedule, with one repeated item.
REQ_CompactConfigs ==
    [variant : {"req"}, k : {1}, c : {<<1, 1>>},
     lazy : {TRUE}, alternate : {TRUE}, d : {None},
     items : {Items}, maxN : {REQ_ItemsMaxN}]
    \cup
    [variant : {"req"}, k : {REQ_SchedK}, c : {<<1, 1>>},
     lazy : {TRUE}, alternate : {TRUE}, d : {None},
     items : {{1}}, maxN : {REQ_SchedMaxN}]

InitReqCompact == InitWith(REQ_CompactConfigs)

NextReqCompact ==
    \E i \in Sketches :
        \/ \E item \in cfg.items : REQUpdate(i, item)
        \/ REQMerge(i)

SpecReqCompact == InitReqCompact /\ [][NextReqCompact]_vars

\* One RelativeErrorSketch built by updates alone, and asked for ranks and
\* their bounds.
REQ_UpdateConfigs ==
    [variant : {"req"}, k : 1..REQ_MaxK, c : {<<1, 1>>},
     lazy : {TRUE}, alternate : {TRUE}, d : {None},
     items : {Items}, maxN : {REQ_ItemsMaxN}]

InitReqUpdates == InitWith(REQ_UpdateConfigs)

NextReqUpdates ==
    \/ \E item \in cfg.items : REQUpdate(1, item)
    \/ \E value \in QueryValues : REQRank(1, value)
    \/ \E value \in QueryValues, z \in NumStdDevs : REQGetRankUpperBound(1, value, z)
    \/ \E value \in QueryValues, z \in NumStdDevs : REQGetRankLowerBound(1, value, z)

SpecReqUpdates == InitReqUpdates /\ [][NextReqUpdates]_vars

\* Long runs of KLL over a stream of one repeated item, for the same reason;
\* c is the default 2/3 or the largest valid value 1.
KLL_DeepConfigs ==
    [variant : {"kll"}, k : 1..MaxK, c : {<<2, 3>>, <<1, 1>>},
     lazy : BOOLEAN, alternate : BOOLEAN, d : {None},
     items : {{1}}, maxN : {KLL_DeepMaxN}]

InitKllDeep == InitWith(KLL_DeepConfigs)

NextKllDeep ==
    \E i \in Sketches :
        \/ \E item \in cfg.items : KLLUpdate(i, item)
        \/ KLLMerge(i)

SpecKllDeep == InitKllDeep /\ [][NextKllDeep]_vars

\* One KLL(k = 1) with the default c, lazy and alternate, fed a long stream
\* and asked for ranks: the sizes of the buffers do not depend on the item
\* values or on the coins.
KLL_StreamConfigs ==
    [variant : {"kll"}, k : {1}, c : {<<2, 3>>},
     lazy : {TRUE}, alternate : {TRUE}, d : {None},
     items : {{1}}, maxN : {KLL_StreamMaxN}]

InitKllStream == InitWith(KLL_StreamConfigs)

NextKllStream ==
    \/ \E item \in cfg.items : KLLUpdate(1, item)
    \/ \E value \in cfg.items : KLLRank(1, value)

SpecKllStream == InitKllStream /\ [][NextKllStream]_vars

\* KLL(k = 16, c = 2/3) fed 0, 1, ..., 99 in ascending order: the item of
\* the next update is the number of updates made so far.
KLL_SortedConfigs ==
    [variant : {"kll"}, k : {16}, c : {<<2, 3>>},
     lazy : {TRUE}, alternate : {TRUE}, d : {None},
     items : {0..99}, maxN : {100}]

InitKllSorted == InitWith(KLL_SortedConfigs)

NextKllSorted ==
    \/ KLLUpdate(1, ins[1])
    \/ KLLRank(1, 50)
    \/ KLLCdf(1)

SpecKllSorted == InitKllSorted /\ [][NextKllSorted]_vars

\* One KLL(k = 2), lazy or not, alternating or not, fed items of three
\* values: every buffer order and every coin of its compactions.
KLL_CompactConfigs ==
    [variant : {"kll"}, k : {KLL_CompactK}, c : {<<2, 3>>},
     lazy : BOOLEAN, alternate : BOOLEAN, d : {None},
     items : {1..KLL_CompactItems}, maxN : {KLL_CompactMaxN}]

InitKllCompact == InitWith(KLL_CompactConfigs)

NextKllCompact == \E item \in cfg.items : KLLUpdate(1, item)

SpecKllCompact == InitKllCompact /\ [][NextKllCompact]_vars

\* The compactors of both classes side by side: the KLL sketch above, and
\* the RelativeErrorSketch runs with their merges
InitOffsets == InitWith(KLL_CompactConfigs \cup REQ_CompactConfigs)

NextOffsets == NextKllCompact \/ NextReqCompact

SpecOffsets == InitOffsets /\ [][NextOffsets]_vars

\* A long stream handed over: sketch 1 is fed one item at a time, an empty
\* sketch 2 then merges it into itself and is fed in turn
REQ_FeedConfigs ==
    [variant : {"req"}, k : {REQ_FeedK, REQ_FeedK + 2}, c : {<<1, 1>>},
     lazy : {TRUE}, alternate : {TRUE}, d : {None},
     items : {{1}}, maxN : {REQ_FeedMaxN}]

InitReqFeed == InitWith(REQ_FeedConfigs)

NextReqFeed ==
    \/ (ins[1] < REQ_FeedN /\ ins[2] = 0 /\ REQUpdate(1, 1))
    \/ (ins[1] = REQ_FeedN /\ ins[2] = 0 /\ REQMerge(2))
    \/ (ins[2] > 0 /\ REQUpdate(2, 1))

SpecReqFeed == InitReqFeed /\ [][NextReqFeed]_vars

\* Constructor calls with arguments in and out of range.  sk[i] = KLL(k, c)
\* rebinds sk[i] when the constructor returns; the KLT and the experimental
\* RelativeErrorSketch objects are only returned.
CtorKs == (0 - 1)..MaxK

CtorCs == { <<1, 4>>, <<1, 2>>, <<2, 3>>, <<1, 1>>, <<3, 2>> }

CtorEps ==
    { <<0, 1>>, <<1, 10000000>>, <<1, 1000000>>, <<1, 100>>, <<1, 10>>,
      <<1, 5>>, <<1, 2>>, <<3, 5>> }

KLLNew(i, k, c) ==
    /\ cfg.variant = "kll"
    /\ LET r == KLL_new(k, c, cfg.lazy, cfg.alternate)
       IN  /\ sk' = IF r.exc = NoExc THEN [sk EXCEPT ![i] = r.val[1]] ELSE sk
           /\ ret' = Ret("KLL", i, r.exc, <<k, c, r.val>>)
    /\ UNCHANGED <<cfg, ins, fed>>

KLTNew(eps, err) ==
    /\ ret' = Ret("KLT", 1, KLT_new(eps, err).exc,
                  <<eps, err, KLT_new(eps, err).val>>)
    /\ UNCHANGED <<cfg, sk, ins, fed>>

REQXNew(eps) ==
    /\ ret' = Ret("RelativeErrorSketch", 1, REQX_new(eps).exc,
                  <<eps, REQX_new(eps).val>>)
    /\ UNCHANGED <<cfg, sk, ins, fed>>

REQNew(k) ==
    /\ ret' = Ret("REQ", 1, REQ_new(k).exc, <<k, REQ_new(k).val>>)
    /\ UNCHANGED <<cfg, sk, ins, fed>>

GDENew(k, d) ==
    /\ ret' = Ret("GDE", 1, GDE_new(k, d).exc, <<k, GDE_new(k, d).val>>)
    /\ UNCHANGED <<cfg, sk, ins, fed>>

InitConstruct == InitWith(KLL_Configs)

NextConstruct ==
    \/ \E i \in Sketches, k \in CtorKs, c \in CtorCs : KLLNew(i, k, c)
    \/ \E eps \in CtorEps, err \in {"additive", "relative"} : KLTNew(eps, err)
    \/ \E eps \in CtorEps : REQXNew(eps)
    \/ \E k \in CtorKs : REQNew(k)
    \/ \E k \in CtorKs, d \in {None, 1} : GDENew(k, d)

SpecConstruct == InitConstruct /\ [][NextConstruct]_vars

\* GDE sketches written to JSON and read back: gde2 = GDE();
\* gde2.from_string(sk[i].to_string()); the loaded sketch is the result.
GDEFromString(i) ==
    /\ cfg.variant = "gde"
    /\ ret' = Ret("from_string", i, NoExc,
                  <<GDE_from_string(GDE_init(GDE_DEFAULT_K, None),
                                    GDE_to_string(sk[i]))>>)
    /\ UNCHANGED <<cfg, sk, ins, fed>>

GDE_StringConfigs ==
    [variant : {"gde"}, k : 1..GDE_MaxK, c : {<<1, 1>>},
     lazy : {TRUE}, alternate : {TRUE}, d : {None},
     items : {Items}, maxN : {GDE_StringMaxN}]

InitGdeString == InitWith(GDE_StringConfigs)

NextGdeString ==
    \/ \E i \in Sketches :
        \/ \E vector \in Vectors : GDEUpdate(i, vector)
        \/ GDEMerge(i)
        \/ GDEFromString(i)

SpecGdeString == InitGdeString /\ [][NextGdeString]_vars

-----------------------------------------------------------------------------
(* Quantities the properties are stated in *)

IsKLL == cfg.variant = "kll"
IsREQ == cfg.variant = "req"
IsGDE == cfg.variant = "gde"

\* the number of positions of buf holding an item <= v
CountLeq(buf, v) == Cardinality({ j \in 1..Len(buf) : buf[j] <= v })

\* sum over the levels h = lo-1 .. of 2^h * |{x in compactors[h] : x <= v}|
RECURSIVE WeightLeq(_, _, _)
WeightLeq(cs, lo, v) ==
    IF lo > Len(cs) THEN 0
    ELSE Pow(2, lo - 1) * CountLeq(cs[lo].buf, v) + WeightLeq(cs, lo + 1, v)

\* the total stored weight: sum over h of 2^h * |compactors[h]|
RECURSIVE StoredWeight(_, _)
StoredWeight(cs, lo) ==
    IF lo > Len(cs) THEN 0
    ELSE Pow(2, lo - 1) * Len(cs[lo].buf) + StoredWeight(cs, lo + 1)

\* some compactor of the sketch has compacted
HasCompacted(s) ==
    \E h \in 1..Len(s.compactors) :
        IF IsKLL THEN s.compactors[h].numCompaction > 0
        ELSE s.compactors[h].numCompactions > 0

\* rank(v) of the variant's class
RankOf(s, v) == IF IsKLL THEN KLL_rank(s, v) ELSE REQ_rank(s, v)

\* the items stored in the sketch, and how many positions hold item x
StoredItems(s) ==
    UNION { { s.compactors[h].buf[j] : j \in 1..Len(s.compactors[h].buf) } :
            h \in 1..Len(s.compactors) }

CountOf(seq, x) == Cardinality({ j \in 1..Len(seq) : seq[j][1] = x })

RECURSIVE StoredCount(_, _, _)
StoredCount(cs, lo, x) ==
    IF lo > Len(cs) THEN 0
    ELSE Cardinality({ j \in 1..Len(cs[lo].buf) : cs[lo].buf[j] = x })
         + StoredCount(cs, lo + 1, x)

-----------------------------------------------------------------------------
(* C1 *)

\* C1: in KLL, after any sequence of update and merge calls (lazy or not),
\* size is the sum of the compactor lengths, size < maxSize, and the
\* assertions closing update and merge do not fail.
C1_KLLSizeBelowMaxSize ==
    IsKLL =>
        /\ ret.exc = NoExc
        /\ \A i \in Sketches :
              /\ sk[i].size = SumLen(sk[i].compactors)
              /\ sk[i].size < sk[i].maxSize

\* a merge into a lazy sketch that left it three levels high, one item
\* short of full, with compactions done on its two lower levels
C1_Witness ==
    /\ IsKLL /\ cfg.lazy /\ ret.op = "merge" /\ ret.exc = NoExc
    /\ sk[ret.self].H >= 3
    /\ \A h \in 1..2 : sk[ret.self].compactors[h].numCompaction >= 1
    /\ sk[Other(ret.self)].size >= 2
    /\ sk[ret.self].size = sk[ret.self].maxSize - 1

-----------------------------------------------------------------------------
(* C2 *)

\* C2: in RelativeErrorSketch, after every update and every mergeIntoSelf,
\* size is the sum of the compactor lengths and size < maxNomSize, and the
\* assertion closing the call did not fail.
C2_REQSizeBelowMaxNomSize ==
    (IsREQ /\ ret.op \in {"update", "merge"}) =>
        /\ ret.exc # "assert size < maxNomSize"
        /\ sk[ret.self].size = SumLen(sk[ret.self].compactors)
        /\ sk[ret.self].size < sk[ret.self].maxNomSize

-----------------------------------------------------------------------------
(* C3 *)

-----------------------------------------------------------------------------
(* C4 *)

\* C4 as claimed: in KLL and RelativeErrorSketch the total stored weight
\* equals the number of items inserted while no compaction has occurred,
\* and is strictly less once a compaction has occurred.
C4_WeightDropsOnCompaction ==
    (IsKLL \/ IsREQ) =>
        \A i \in Sketches :
            IF HasCompacted(sk[i])
            THEN StoredWeight(sk[i].compactors, 1) < ins[i]
            ELSE StoredWeight(sk[i].compactors, 1) = ins[i]

\* C4 as amended: in KLL and RelativeErrorSketch the total stored weight
\* equals the number of items inserted in every state, also after
\* compactions (a compaction moves half of an even number of items up one
\* level); in RelativeErrorSketch that number is the field N.
C4_WeightConserved ==
    (IsKLL \/ IsREQ) =>
        \A i \in Sketches :
            /\ StoredWeight(sk[i].compactors, 1) = ins[i]
            /\ IsREQ => sk[i].N = ins[i]

\* a RelativeErrorSketch whose level 0 has compacted into level 1
C4_Witness ==
    /\ IsREQ
    /\ \E i \in Sketches :
          /\ sk[i].compactors[1].numCompactions >= 1
          /\ sk[i].H >= 2
          /\ sk[i].compactors[2].buf # <<>>

-----------------------------------------------------------------------------
(* C5 *)

\* C5: rank(v) returns the sum over the levels h of
\* 2^h * |{x in compactors[h] : x <= v}|, and leaves the sketch as it was.
C5_RankIsWeightLeq ==
    [][ (ret'.op = "rank") =>
            /\ ret'.exc = NoExc
            /\ ret'.val[2] = WeightLeq(sk[ret'.self].compactors, 1, ret'.val[1])
            /\ sk' = sk ]_vars

\* a rank that counts items of two levels and leaves out a larger item
C5_Witness ==
    /\ ret.op = "rank"
    /\ sk[ret.self].H >= 2
    /\ CountLeq(sk[ret.self].compactors[2].buf, ret.val[1]) >= 1
    /\ CountLeq(sk[ret.self].compactors[1].buf, ret.val[1]) >= 1
    /\ ret.val[2] < StoredWeight(sk[ret.self].compactors, 1)

-----------------------------------------------------------------------------
(* C6 *)

\* C6: in every reachable state rank is non-decreasing in its argument, and
\* rank(v) = 0 for v below every stored item.
C6_RankMonotone ==
    (IsKLL \/ IsREQ) =>
        \A i \in Sketches :
            /\ \A v, w \in QueryValues : v <= w => RankOf(sk[i], v) <= RankOf(sk[i], w)
            /\ \A v \in QueryValues :
                  (\A x \in StoredItems(sk[i]) : v < x) => RankOf(sk[i], v) = 0

\* a sketch of two levels on which rank takes three different values
C6_Witness ==
    /\ (IsKLL \/ IsREQ)
    /\ \E i \in Sketches :
          /\ sk[i].H >= 2
          /\ sk[i].compactors[2].buf # <<>>
          /\ 0 < RankOf(sk[i], 1)
          /\ RankOf(sk[i], 1) < RankOf(sk[i], MaxItem)

-----------------------------------------------------------------------------
(* C7 *)

\* the cumulative weights of a ranks() result never decrease and the items
\* ascend
Ascending(rk) ==
    \A j \in 1..(Len(rk) - 1) : rk[j][1] <= rk[j + 1][1] /\ rk[j][2] <= rk[j + 1][2]

\* the cumulative fractions of a cdf() result never decrease and the items
\* ascend
AscendingCdf(cd) ==
    \A j \in 1..(Len(cd) - 1) :
        /\ cd[j][1] <= cd[j + 1][1]
        /\ cd[j][2][1] * cd[j + 1][2][2] <= cd[j + 1][2][1] * cd[j][2][2]

\* C7: ranks() and cdf() return one entry per stored item, sorted ascending
\* by item with the cumulative weight non-decreasing; the last ranks()
\* entry carries the total stored weight, the last cdf() entry the
\* fraction 1; on an empty sketch both return the empty list, no error.
C7_RanksAndCdfSorted ==
    (ret.op \in {"ranks", "cdf"}) =>
        LET s == sk[ret.self]
            r == ret.val[2]
        IN  /\ ret.exc = NoExc
            /\ Len(r) = SumLen(s.compactors)
            /\ \A x \in Items : CountOf(r, x) = StoredCount(s.compactors, 1, x)
            /\ IF ret.op = "ranks"
               THEN /\ Ascending(r)
                    /\ r # <<>> => r[Len(r)][2] = StoredWeight(s.compactors, 1)
               ELSE /\ AscendingCdf(r)
                    /\ r # <<>> => r[Len(r)][2] = <<1, 1>>

\* a cdf() over two levels with the same item stored at both weights
C7_Witness ==
    /\ ret.op = "cdf"
    /\ Len(ret.val[2]) >= 3
    /\ sk[ret.self].H >= 2
    /\ \E x \in Items :
          /\ StoredCount(<<sk[ret.self].compactors[1]>>, 1, x) >= 1
          /\ StoredCount(<<sk[ret.self].compactors[2]>>, 1, x) >= 1
    /\ \E x, y \in StoredItems(sk[ret.self]) : x # y

-----------------------------------------------------------------------------
(* C8 *)

\* the first entry (1-based) of rk whose cumulative rank is >= q*N, or 0
FirstAtLeast(rk, q, N) ==
    LET hits == { j \in 1..Len(rk) : rk[j][2] * q[2] >= q[1] * N }
    IN  IF hits = {} THEN 0 ELSE CHOOSE j \in hits : \A l \in hits : j <= l

InUnit(q) == q[1] >= 0 /\ q[1] <= q[2]

\* C8: quantile(q), 0 <= q <= 1, on a sketch with N >= 1 returns the item of
\* the first ranks() entry whose cumulative rank is >= q*N; there is one, so
\* the search does not index past the end.
C8_QuantileFirstAtLeast ==
    (ret.op = "quantile" /\ InUnit(ret.val[1]) /\ sk[ret.self].N >= 1) =>
        LET rk == ranks(sk[ret.self])
            j  == FirstAtLeast(rk, ret.val[1], sk[ret.self].N)
        IN  /\ ret.exc = NoExc
            /\ j >= 1
            /\ ret.val[2] = <<rk[j][1]>>

\* a quantile over two levels that is not the smallest stored item
C8_Witness ==
    /\ ret.op = "quantile" /\ ret.exc = NoExc
    /\ sk[ret.self].H >= 2
    /\ sk[ret.self].compactors[2].buf # <<>>
    /\ ret.val[1] = <<1, 2>>
    /\ \E x \in StoredItems(sk[ret.self]) : <<x>> # ret.val[2] /\ x < ret.val[2][1]

-----------------------------------------------------------------------------
(* C9 *)

\* C9: quantile(q) fails with an error, returning no item, when q < 0 or
\* q > 1 and when the sketch is empty (N = 0), and leaves the sketch as it
\* was.
C9_QuantileFails ==
    [][ (ret'.op = "quantile" /\ (~InUnit(ret'.val[1]) \/ sk[ret'.self].N = 0)) =>
            /\ ret'.exc # NoExc
            /\ ret'.val[2] = <<>>
            /\ sk' = sk ]_vars

\* quantile(q) with q out of [0, 1] failed on a sketch holding items
C9_Witness ==
    /\ ret.op = "quantile"
    /\ ret.exc = "assert q >= 0 and q <= 1"
    /\ sk[ret.self].N >= 2

-----------------------------------------------------------------------------
(* C10 *)

\* C10: a merge leaves its argument as it was: after merge(other) /
\* mergeIntoSelf(other) of KLL, RelativeErrorSketch and GDE, every field of
\* other and of each of its compactors is what it was before the call.
C10_MergeKeepsOther ==
    [][ (ret'.op = "merge") =>
            sk'[Other(ret'.self)] = sk[Other(ret'.self)] ]_vars

\* a merge that compacted self while the argument holds items
C10_Witness ==
    /\ ret.op = "merge" /\ ret.exc = NoExc
    /\ Len(sk[ret.self].compactors) > Len(sk[Other(ret.self)].compactors)
    /\ IF IsGDE THEN sk[Other(ret.self)].compactors[1] # <<>>
       ELSE sk[Other(ret.self)].compactors[1].buf # <<>>

-----------------------------------------------------------------------------
(* C11 *)

\* C11: RelativeErrorSketch.merge(one, two) returns one when
\* one.size >= two.size and two otherwise; the sketch returned has
\* N = one.N + two.N and the other argument is left as it was.
C11_StaticMergeIntoLarger ==
    [][ (ret'.op = "mergeStatic") =>
            LET one == ret'.self
                two == Other(one)
                big == IF sk[one].size >= sk[two].size THEN one ELSE two
            IN  /\ ret'.exc = NoExc
                /\ ret'.val = <<big>>
                /\ sk'[big].N = sk[one].N + sk[two].N
                /\ sk'[Other(big)] = sk[Other(big)] ]_vars

-----------------------------------------------------------------------------
(* C12 *)

\* the level-0 compactor of sk[i] has compacted in the step
Level0Compacted(i) ==
    sk'[i].compactors[1].numCompactions > REQ_compactorMerge(
        sk[i].compactors[1],
        IF ret'.op = "update" THEN REQ_Compactor(cfg.k, 0)
        ELSE sk[Other(i)].compactors[1]).numCompactions

\* after is the sorted before cut to a prefix of at least cap/2 - 1 items
KeepsLowerHalf(before, after, cap) ==
    /\ Len(after) >= cap \div 2 - 1
    /\ Len(after) < Len(before) - 1
    /\ after = SubSeq(ListSort(before), 1, Len(after))

\* C12: RelativeCompactor.compact never compacts the lower half of the
\* buffer: neither assertion on the start index s fails in any update or
\* merge, and when level 0 compacts in a call, what it keeps is the sorted
\* buffer cut after at least cap/2 - 1 of its smallest items.
C12_LowerHalfStays ==
    [][ (IsREQ /\ ret'.op \in {"update", "merge"}) =>
            LET i   == ret'.self
                c   == sk[i].compactors[1]
                o   == sk[Other(i)].compactors[1]
                now == sk'[i].compactors[1].buf
            IN  /\ ret'.exc \notin {"assert s < len(self) - 1",
                                     "assert s >= cap // 2 - 1"}
                /\ (ret'.op = "update" /\ Level0Compacted(i)) =>
                       \E item \in cfg.items :
                           KeepsLowerHalf(Append(c.buf, item), now,
                                          REQ_nomCapacity(c))
                /\ (ret'.op = "merge" /\ Level0Compacted(i)) =>
                       KeepsLowerHalf(c.buf \o o.buf, now,
                                      REQ_nomCapacity(REQ_compactorMerge(c, o))) ]_vars

\* an update after which level 0, compacting by the schedule of sections,
\* has compacted twice and keeps more than half of its capacity
C12_Witness ==
    /\ IsREQ /\ ret.op = "update" /\ ret.exc = NoExc
    /\ sk[ret.self].compactors[1].sectionSize >= SMALLEST_MEANINGFUL_SECTION_SIZE
    /\ sk[ret.self].compactors[1].numCompactions >= 2
    /\ Len(sk[ret.self].compactors[1].buf)
          > REQ_nomCapacity(sk[ret.self].compactors[1]) \div 2
    /\ Len(sk[ret.self].compactors[1].buf)
          < REQ_nomCapacity(sk[ret.self].compactors[1])
    /\ sk[ret.self].N = ins[ret.self]
    /\ ins[Other(ret.self)] = 0

-----------------------------------------------------------------------------
(* C13 *)

\* the true rank of v in the stream summarised by sk[i]
RECURSIVE TrueRank(_, _)
TrueRank(f, v) ==
    IF v < 1 THEN 0
    ELSE (IF v \in DOMAIN f THEN f[v] ELSE 0) + TrueRank(f, v - 1)

\* C13: in a RelativeErrorSketch built by updates, every v whose estimated
\* rank(v) is at most k * INIT_NUMBER_OF_SECTIONS has rank(v) equal to the
\* number of inserted items <= v, and getRankUpperBound and
\* getRankLowerBound return that number.
C13_SmallRanksExact ==
    IsREQ =>
        /\ \A v \in QueryValues :
              REQ_rank(sk[1], v) <= cfg.k * INIT_NUMBER_OF_SECTIONS
                  => REQ_rank(sk[1], v) = TrueRank(fed[1], v)
        /\ (/\ ret.op \in {"getRankUpperBound", "getRankLowerBound"}
            /\ REQ_rank(sk[1], ret.val[1][1]) <= cfg.k * INIT_NUMBER_OF_SECTIONS)
               => ret.val[2] = TrueRank(fed[1], ret.val[1][1])

-----------------------------------------------------------------------------
(* C14 *)

\* C14: GDE.update with a vector whose length is not the dimension d the
\* sketch has, and GDE.merge with a non-empty sketch whose d is not the d
\* self has, raise ValueError and leave self, as every other object, as it
\* was.  (A sketch whose d is still None has no dimension: it takes the
\* one of the first vector or of the sketch merged into it.)
C14_DimensionMismatch ==
    [][ LET i == ret'.self
            j == Other(i)
        IN  /\ (/\ IsGDE /\ ret'.op = "update"
                /\ sk[i].d # None /\ Len(ret'.val[1]) # sk[i].d)
                   => (ret'.exc = "ValueError" /\ sk' = sk)
            /\ (/\ IsGDE /\ ret'.op = "merge"
                /\ sk[i].d # None /\ sk[j].d # None /\ sk[j].n > 0
                /\ sk[j].d # sk[i].d)
                   => (ret'.exc = "ValueError" /\ sk' = sk) ]_vars

\* a merge of two sketches of different dimensions, each compacted, failed
C14_Witness ==
    /\ IsGDE /\ ret.op = "merge" /\ ret.exc = "ValueError"
    /\ Len(sk[ret.self].compactors) >= 2
    /\ sk[Other(ret.self)].n >= 2

-----------------------------------------------------------------------------
(* C15 *)

\* level h of a list of compactors, empty above its last level
LevelOf(cs, h) == IF h <= Len(cs) THEN cs[h] ELSE <<>>

\* C15: gde1.merge(gde2) with compatible dimensions succeeds with gde1.n
\* the sum of both n; when the sizes together are below gde1.max_size
\* nothing is compacted: gde1.size is the sum of both sizes and every level
\* of gde1 is what it held followed by what gde2 holds at that level.
C15_GDEMergeAppends ==
    [][ (/\ IsGDE /\ ret'.op = "merge"
         /\ (sk[ret'.self].d = None \/ sk[Other(ret'.self)].d = None
                \/ sk[ret'.self].d = sk[Other(ret'.self)].d)) =>
            LET a  == sk[ret'.self]
                b  == sk[Other(ret'.self)]
                a2 == sk'[ret'.self]
            IN  /\ ret'.exc = NoExc
                /\ a2.n = a.n + b.n
                /\ (a.size + b.size < a.max_size) =>
                      /\ a2.size = a.size + b.size
                      /\ \A h \in 1..(Len(a.compactors) + Len(b.compactors)) :
                            LevelOf(a2.compactors, h)
                              = LevelOf(a.compactors, h) \o LevelOf(b.compactors, h) ]_vars

\* a merge without compaction: level 0 of self ends with the vectors of
\* the argument's level 0, after vectors of its own
C15_Witness ==
    /\ IsGDE /\ ret.op = "merge" /\ ret.exc = NoExc
    /\ LET a == sk[ret.self].compactors[1]
           b == sk[Other(ret.self)].compactors[1]
       IN  /\ b # <<>>
           /\ Len(a) > Len(b)
           /\ SubSeq(a, Len(a) - Len(b) + 1, Len(a)) = b
           /\ a[1] # b[1]
    /\ sk[ret.self].size < sk[ret.self].max_size
    /\ sk[ret.self].n = ins[ret.self]


\* C16: a GDE sketch loaded with from_string(s.to_string()) equals s in d, k,
\* n, size, max_size, the number of compactors and the vectors of every
\* compactor in order.
C16_RoundTrip ==
    (ret.op = "from_string") =>
        LET s == sk[ret.self]
            loaded == ret.val[1]
        IN  /\ loaded.d = s.d
            /\ loaded.k = s.k
            /\ loaded.n = s.n
            /\ loaded.size = s.size
            /\ loaded.max_size = s.max_size
            /\ Len(loaded.compactors) = Len(s.compactors)
            /\ loaded.compactors = s.compactors


\* C17: the constructors reject parameters out of range with ValueError
\* before any compactor is created: KLL(k, c) fails iff k <= 0 or c <= 0.5 or
\* c > 1; KLT(eps) fails when eps < 1e-6 or eps > 0.5; the experimental
\* RelativeErrorSketch(eps) fails when eps > 0.1.  A KLL constructed with
\* valid parameters has H = 1, size = 0 and maxSize = k + 1.
C17_ConstructorValidation ==
    /\ (ret.op = "KLL") =>
          LET k == ret.val[1]
              c == ret.val[2]
              bad == k <= 0 \/ 2 * c[1] <= c[2] \/ c[1] > c[2]
          IN  /\ (ret.exc = "ValueError") <=> bad
              /\ bad => ret.val[3] = <<>>
              /\ ~bad => /\ ret.exc = NoExc
                         /\ ret.val[3] = <<sk[ret.self]>>
                         /\ sk[ret.self].H = 1
                         /\ Len(sk[ret.self].compactors) = 1
                         /\ sk[ret.self].size = 0
                         /\ sk[ret.self].maxSize = k + 1
    /\ (ret.op = "KLT") =>
          LET eps == ret.val[1]
          IN  (1000000 * eps[1] < eps[2] \/ 2 * eps[1] > eps[2]) =>
                  ret.exc = "ValueError" /\ ret.val[3] = <<>>
    /\ (ret.op = "RelativeErrorSketch") =>
          LET eps == ret.val[1]
          IN  (10 * eps[1] > eps[2]) =>
                  ret.exc = "ValueError" /\ ret.val[2] = <<>>

C17_Witness ==
    /\ ret.op = "KLL"
    /\ ret.exc = NoExc
    /\ ret.val[1] = MaxK
    /\ ret.val[2] = <<1, 1>>
    /\ sk[ret.self].maxSize = MaxK + 1
    /\ sk[Other(ret.self)].c = <<2, 3>>


\* C18: RelativeErrorSketch(k) and GDE(k, d) with k <= 0 fail at
\* construction, so that no sketch with k <= 0 exists to receive an update.
C18_NonPositiveKFails ==
    (ret.op \in {"REQ", "GDE"} /\ ret.val[1] <= 0) =>
        ret.exc # NoExc /\ ret.val[2] = <<>>


\* C19: KLL(k) with the default c = 2/3 holds at most 3k + log2(n) elements
\* after any stream of n >= 1 updates; size - 3k <= log2(n) is written
\* 2^(size - 3k) <= n.
C19_SizeAtMost3kPlusLog ==
    (IsKLL /\ ins[1] >= 1 /\ ins[2] = 0 /\ sk[1].c = <<2, 3>>) =>
        \/ sk[1].size <= 3 * sk[1].k
        \/ Pow(2, sk[1].size - 3 * sk[1].k) <= ins[1]


\* C20: for KLL(k = 16, c = 2/3) after inserting 0, 1, ..., 99 in ascending
\* order, whatever the coins of the compactions, rank(50) lies in [45, 55]
\* and the last entry of cdf() has cumulative fraction 1.
C20_SortedSmallStream ==
    (IsKLL /\ sk[1].k = 16 /\ ins[1] = 100) =>
        /\ KLL_rank(sk[1], 50) \in 45..55
        /\ (ret.op = "rank" /\ ret.val[1] = 50) => ret.val[2] \in 45..55
        /\ cdf(sk[1])[Len(cdf(sk[1]))][2] = <<1, 1>>
        /\ (ret.op = "cdf") => ret.val[2][Len(ret.val[2])] = <<99, <<1, 1>>>>

C20_Witness ==
    /\ IsKLL
    /\ sk[1].k = 16
    /\ ins[1] = 100
    /\ sk[1].H = 3
    /\ ret.op = "rank"
    /\ ret.val = <<50, 48>>


\* C21: a GDE sketch never stores more vectors than were inserted: after any
\* updates and merges size <= n, and size <= k * (number of compactors).
C21_GDESizeAtMostN ==
    IsGDE =>
        \A i \in Sketches :
            /\ sk[i].size <= sk[i].n
            /\ GDE_sumLen(sk[i].compactors) <= sk[i].n
            /\ sk[i].size <= sk[i].k * Len(sk[i].compactors)

C21_Witness ==
    /\ IsGDE
    /\ ret.op = "merge"
    /\ ret.exc = NoExc
    /\ Len(sk[ret.self].compactors) >= 2
    /\ sk[ret.self].size < sk[ret.self].n
    /\ sk[ret.self].size >= 2
    /\ sk[Other(ret.self)].size = sk[Other(ret.self)].k * Len(sk[Other(ret.self)].compactors)


-----------------------------------------------------------------------------
(* C22 *)

\* level h (1-based) of sk[i] compacts once in the step and its neighbours
\* do not
KLL_CompactedAlone(i, h) ==
    /\ h <= Len(sk[i].compactors)
    /\ sk'[i].compactors[h].numCompaction = sk[i].compactors[h].numCompaction + 1
    /\ h > 1 => sk'[i].compactors[h - 1].numCompaction
                    = sk[i].compactors[h - 1].numCompaction
    /\ h < Len(sk[i].compactors) =>
           sk'[i].compactors[h + 1].numCompaction
               = sk[i].compactors[h + 1].numCompaction

\* the buffer of the level above h before the step
KLL_Above(i, h) ==
    IF h < Len(sk[i].compactors) THEN sk[i].compactors[h + 1].buf ELSE <<>>

\* out is what a compaction with the offset of after emits from the buffer
\* before, and after is what it leaves
KLL_CompactsTo(before, after, out) ==
    LET m == Len(before)
        sorted == ListSort(before)
    IN  /\ Len(out) = m \div 2
        /\ \A j \in 1..(Len(out) - 1) : out[j] <= out[j + 1]
        /\ after.offset \in {0, 1}
        /\ \A j \in 1..(m \div 2) : out[j] = sorted[after.offset + 2 * (j - 1) + 1]
        /\ after.buf = IF m % 2 = 0 THEN <<>> ELSE <<sorted[m]>>
        /\ m % 2 = 1 => \A j \in 1..m : before[j] <= after.buf[1]

\* C22: Compactor.compact of KLL on a buffer of m items emits exactly m div 2
\* items, ascending, the items at positions offset, offset + 2, ... of the
\* sorted first 2 * (m div 2) items; the buffer is left empty when m is even
\* and with the largest item alone when m is odd; numCompaction grows by 1.
C22_KLLCompact ==
    [][ (IsKLL /\ ret'.op = "update") =>
            \A h \in 1..Len(sk[1].compactors) :
                KLL_CompactedAlone(1, h) =>
                    \E item \in cfg.items :
                        /\ fed'[1][item] = fed[1][item] + 1
                        /\ SubSeq(sk'[1].compactors[h + 1].buf, 1,
                                  Len(KLL_Above(1, h))) = KLL_Above(1, h)
                        /\ KLL_CompactsTo(
                               IF h = 1 THEN Append(sk[1].compactors[1].buf, item)
                               ELSE sk[1].compactors[h].buf,
                               sk'[1].compactors[h],
                               SubSeq(sk'[1].compactors[h + 1].buf,
                                      Len(KLL_Above(1, h)) + 1,
                                      Len(sk'[1].compactors[h + 1].buf))) ]_vars

\* the second level has compacted an even buffer into two different items
\* after the first level compacted odd buffers, the last with offset 1
C22_Witness ==
    /\ IsKLL /\ ret.op = "update" /\ ret.exc = NoExc
    /\ Len(sk[1].compactors) = 3
    /\ sk[1].compactors[2].numCompaction = 1
    /\ sk[1].compactors[2].buf = <<>>
    /\ sk[1].compactors[3].buf = <<2, 3>>
    /\ sk[1].compactors[1].numCompaction = 3
    /\ sk[1].compactors[1].offset = 1
    /\ Len(sk[1].compactors[1].buf) = 2


-----------------------------------------------------------------------------
(* C23 *)

\* compactor h (1-based) of sk[i] as the call of the step finds it before
\* any compaction: a merge first adds the other sketch's compactor to it
CompactorBefore(i, h) ==
    IF IsREQ /\ ret'.op = "merge" /\ i = ret'.self
             /\ h <= Len(sk[Other(i)].compactors)
    THEN REQ_compactorMerge(sk[i].compactors[h], sk[Other(i)].compactors[h])
    ELSE sk[i].compactors[h]

\* the count of compactions of a compactor of either class
Compactions(c) == IF IsKLL THEN c.numCompaction ELSE c.numCompactions

\* C23: offsets alternate over the compactions of one compactor: in a KLL
\* Compactor with alternate = True and in a RelativeCompactor, a compaction
\* made when the count of compactions is odd uses 1 - the offset of the
\* compaction before it; the offset is always 0 or 1.
C23_OffsetsAlternate ==
    [][ \A i \in Sketches : \A h \in 1..Len(sk[i].compactors) :
            LET pre  == CompactorBefore(i, h)
                post == sk'[i].compactors[h]
            IN  /\ post.offset \in {0, 1}
                /\ (/\ Compactions(post) = Compactions(pre) + 1
                    /\ Compactions(pre) % 2 = 1
                    /\ IsKLL => pre.alternate)
                      => post.offset = 1 - pre.offset ]_vars

\* a merge of RelativeErrorSketches in which level 0 of self, compacted
\* once before, compacts again and flips its offset from 1 to 0
C23_Witness ==
    /\ IsREQ /\ ret.op = "merge" /\ ret.exc = NoExc
    /\ sk[ret.self].compactors[1].numCompactions = 2
    /\ sk[Other(ret.self)].compactors[1].numCompactions = 0
    /\ sk[Other(ret.self)].N > 0
    /\ sk[ret.self].compactors[1].offset = 0


-----------------------------------------------------------------------------
(* C24 *)

\* compactor h (1-based) of sk[i] as the call of the step has it before any
\* compaction: a level self lacks is grown, and in a merge the compactor of
\* the other sketch is merged into it
REQ_Before(i, h) ==
    LET base == IF h <= Len(sk[i].compactors) THEN sk[i].compactors[h]
                ELSE REQ_Compactor(cfg.k, h - 1)
    IN  IF ret'.op = "merge" /\ i = ret'.self
           /\ h <= Len(sk[Other(i)].compactors)
        THEN REQ_compactorMerge(base, sk[Other(i)].compactors[h])
        ELSE base

\* level h of sk[i] compacts in the step and the levels next to it do not
REQ_CompactedAlone(i, h) ==
    /\ h < Len(sk'[i].compactors)
    /\ sk'[i].compactors[h].numCompactions = REQ_Before(i, h).numCompactions + 1
    /\ h > 1 => sk'[i].compactors[h - 1].numCompactions
                    = REQ_Before(i, h - 1).numCompactions
    /\ sk'[i].compactors[h + 1].numCompactions
           = REQ_Before(i, h + 1).numCompactions

\* the compaction of the buffer before, whose start index was s0, left
\* after and emitted out
REQ_CompactsTo(before, s0, pre, post, out) ==
    LET len == Len(before)
        sorted == ListSort(before)
        s == Len(post.buf)
    IN  /\ (len - s) % 2 = 0
        /\ s = IF (len - s0) % 2 = 0 THEN s0
               ELSE IF s0 > 0 THEN s0 - 1 ELSE s0 + 1
        /\ 2 * Len(out) = len - s
        /\ \A j \in 1..(Len(out) - 1) : out[j] <= out[j + 1]
        /\ \A j \in 1..Len(out) : out[j] = sorted[s + post.offset + 2 * (j - 1) + 1]
        /\ post.buf = SubSeq(sorted, 1, s)
        /\ \A j \in 1..s : \A l \in (s + 1)..len : post.buf[j] <= sorted[l]
        /\ post.numCompactions = pre.numCompactions + 1
        /\ post.state = pre.state + 1

\* C24: RelativeCompactor.compact removes an even number |buf| - s of items
\* (s is decremented, or incremented when s = 0, if |buf| - s is odd), emits
\* exactly half of them in ascending order (sorted positions s + offset,
\* s + offset + 2, ...), keeps exactly the s smallest items in the buffer,
\* and increments both numCompactions and state by 1.
C24_REQCompact ==
    [][ (IsREQ /\ ret'.op \in {"update", "merge"}) =>
            LET i == ret'.self
            IN  \A h \in 1..Len(sk'[i].compactors) :
                    REQ_CompactedAlone(i, h) =>
                        \E tail \in { <<>> } \cup { <<item>> : item \in cfg.items } :
                            /\ (tail # <<>>) <=> (ret'.op = "update" /\ h = 1)
                            /\ tail # <<>> => fed'[i][tail[1]] = fed[i][tail[1]] + 1
                            /\ SubSeq(sk'[i].compactors[h + 1].buf, 1,
                                      Len(REQ_Before(i, h + 1).buf))
                                   = REQ_Before(i, h + 1).buf
                            /\ REQ_CompactsTo(
                                   REQ_Before(i, h).buf \o tail,
                                   REQ_compactStart(REQ_Before(i, h),
                                                    REQ_nomCapacity(REQ_Before(i, h))),
                                   REQ_Before(i, h),
                                   sk'[i].compactors[h],
                                   SubSeq(sk'[i].compactors[h + 1].buf,
                                          Len(REQ_Before(i, h + 1).buf) + 1,
                                          Len(sk'[i].compactors[h + 1].buf))) ]_vars

\* level 0 has compacted in a merge, choosing the sections by the schedule
\* and lowering s by one to remove an even number of items
C24_Witness ==
    /\ IsREQ /\ ret.op = "merge" /\ ret.exc = NoExc
    /\ sk[ret.self].compactors[1].sectionSize >= SMALLEST_MEANINGFUL_SECTION_SIZE
    /\ sk[ret.self].compactors[1].numCompactions = 2
    /\ sk[ret.self].compactors[1].state = 2
    /\ Len(sk[ret.self].compactors[1].buf) % 2 = 1
    /\ sk[ret.self].compactors[2].buf # <<>>


\* level h of sk[i] compacts in the step
REQ_Compacted(i, h) ==
    sk'[i].compactors[h].numCompactions > REQ_Before(i, h).numCompactions

\* C25: whenever RelativeCompactor.compact runs with sectionSize >= 4 in a
\* sketch reached by updates and mergeIntoSelf calls, the assertions
\* numCompactions <= 2^(numSections-1) and state <= 2^(numSections-1) hold
\* and t = trailing_ones(state) + 1 satisfies 1 <= t <= numSections.
C25_ScheduleWithinSections ==
    [][ (IsREQ /\ ret'.op \in {"update", "merge"}) =>
            LET i == ret'.self
            IN  /\ ret'.exc \notin
                       {"assert numCompactions <= 2**(numSections-1)",
                        "assert state <= 2**(numSections-1)"}
                /\ \A h \in 1..Len(sk'[i].compactors) :
                       (/\ REQ_Compacted(i, h)
                        /\ REQ_Before(i, h).sectionSize
                               >= SMALLEST_MEANINGFUL_SECTION_SIZE)
                       => trailing_ones_binary(REQ_Before(i, h).state) + 1
                              \in 1..REQ_Before(i, h).numSections ]_vars


\* C26: in a RelativeErrorSketch on which no merge has been performed,
\* every compactor has state = numCompactions after any sequence of updates
\* (sketch 1 of the long stream is only ever updated).
C26_StateIsCount ==
    IsREQ => \A h \in 1..Len(sk[1].compactors) :
                 sk[1].compactors[h].state = sk[1].compactors[h].numCompactions

\* updates alone have compacted level 0 past two section doublings and
\* level 1 past one
C26_Witness ==
    /\ IsREQ /\ ret.op = "update" /\ ret.self = 1 /\ ret.exc = NoExc
    /\ Len(sk[1].compactors) >= 2
    /\ sk[1].compactors[1].state = 33
    /\ sk[1].compactors[1].numSections = 12
    /\ sk[1].compactors[2].state >= 4
    /\ sk[1].compactors[2].numSections = 6


\* bit b of the natural number n
Bit(n, b) == (n \div Pow(2, b)) % 2

\* the states of the schedule stay below 2^StateBits in the model
StateBits == 24

\* m is what RelativeCompactor.mergeIntoSelf makes of c when given o
REQ_MergesTo(c, o, m) ==
    LET sum   == c.numCompactions + o.numCompactions
        grows == sum >= Pow(2, c.numSections - 1)
    IN  /\ m.state < Pow(2, StateBits)
        /\ \A b \in 0..(StateBits - 1) :
               Bit(m.state, b) = 1 <=> (Bit(c.state, b) = 1 \/ Bit(o.state, b) = 1)
        /\ m.numCompactions = sum
        /\ m.buf = c.buf \o o.buf
        /\ m.offset = c.offset
        /\ m.numSections = IF grows THEN 2 * c.numSections ELSE c.numSections
        /\ m.sectionSizeF.j = IF grows THEN c.sectionSizeF.j + 1 ELSE c.sectionSizeF.j
        /\ ~grows => m.sectionSize = c.sectionSize

\* C27: RelativeCompactor.mergeIntoSelf(other) sets state to the bitwise OR
\* of both states, numCompactions to the sum of both counts and the buffer
\* to self's items followed by other's, leaves offset unchanged, and doubles
\* the sections exactly once if the summed numCompactions is at least
\* 2^(numSections-1) and not at all otherwise (for every pair of compactors
\* at the same level of the two sketches).
C27_CompactorMerge ==
    IsREQ => \A i \in Sketches :
                 \A h \in 1..Len(sk[i].compactors) :
                     h <= Len(sk[Other(i)].compactors) =>
                         REQ_MergesTo(sk[i].compactors[h],
                                      sk[Other(i)].compactors[h],
                                      REQ_compactorMerge(sk[i].compactors[h],
                                                         sk[Other(i)].compactors[h]))

\* a merge has left level 0 with a state that is the OR and not the sum of
\* two states and with its sections doubled
C27_Witness ==
    /\ IsREQ /\ ret.op = "merge" /\ ret.exc = NoExc
    /\ sk[ret.self].compactors[1].state < sk[ret.self].compactors[1].numCompactions
    /\ sk[Other(ret.self)].compactors[1].state > 0
    /\ sk[ret.self].compactors[1].numSections = 2 * INIT_NUMBER_OF_SECTIONS
    /\ Len(sk[ret.self].compactors[1].buf)
           > Len(sk[Other(ret.self)].compactors[1].buf)


\* C28: every RelativeCompactor of a sketch constructed with k >= 1 and
\* reached by updates and merges has sectionSize > 0 and numSections >= 2,
\* hence nomCapacity() = 2 * numSections * sectionSize > 1 and the assertion
\* in nomCapacity never fails; section doubling never reduces nomCapacity.
C28_SectionsStayPositive ==
    [][ (IsREQ /\ cfg.k >= 1) =>
            /\ ret'.exc # "assert cap > 1"
            /\ \A i \in Sketches :
                   \A h \in 1..Len(sk'[i].compactors) :
                       LET c == sk'[i].compactors[h]
                       IN  /\ c.sectionSize > 0
                           /\ c.numSections >= 2
                           /\ REQ_nomCapacity(c) = 2 * c.numSections * c.sectionSize
                           /\ REQ_nomCapacity(c) > 1
                           /\ (/\ h <= Len(sk[i].compactors)
                               /\ c.numSections > sk[i].compactors[h].numSections)
                              => REQ_nomCapacity(c)
                                     >= REQ_nomCapacity(sk[i].compactors[h]) ]_vars


\* the compactor's sections have doubled j times since a sketch with
\* parameter k made it
REQ_SectionsAfter(c, k, j) ==
    /\ c.numSections = INIT_NUMBER_OF_SECTIONS * Pow(2, j)
    /\ c.sectionSize = IF j = 0 THEN k
                       ELSE IntOfSectionSizeF([k |-> k, j |-> j])
    /\ REQ_nomCapacity(c) = 2 * c.numSections * c.sectionSize

\* C29 as stated: for every RelativeCompactor at every reachable state,
\* capacity = 2 * numSections * sectionSize and sectionSize is even,
\* including after each section doubling.
C29_SectionSizeEven ==
    IsREQ => \A i \in Sketches :
                 \A h \in 1..Len(sk[i].compactors) :
                     /\ REQ_nomCapacity(sk[i].compactors[h])
                            = 2 * sk[i].compactors[h].numSections
                                * sk[i].compactors[h].sectionSize
                     /\ sk[i].compactors[h].sectionSize % 2 = 0

\* C29 amended: for every RelativeCompactor at every reachable state,
\* capacity = 2 * numSections * sectionSize; sectionSize is the k of the
\* sketch, even when k is, until the compactor's first section doubling, and
\* after j doublings (numSections = 3 * 2^j) it is int(sectionSizeF),
\* sectionSizeF being float(k) divided j times by sqrt(2), which can be odd.
C29_SectionSizeFromK ==
    IsREQ => \A i \in Sketches :
                 \A h \in 1..Len(sk[i].compactors) :
                     LET c == sk[i].compactors[h]
                     IN  /\ c.sectionSizeF.k = cfg.k
                         /\ REQ_SectionsAfter(c, cfg.k, c.sectionSizeF.j)
                         /\ (cfg.k % 2 = 0 /\ c.sectionSizeF.j = 0)
                                => c.sectionSize % 2 = 0

\* a compactor of a sketch with an even k has doubled its sections once, in
\* a compaction, and has an odd sectionSize
C29_Witness ==
    /\ IsREQ /\ cfg.k % 2 = 0 /\ ret.op = "update" /\ ret.exc = NoExc
    /\ sk[ret.self].compactors[1].numSections = 2 * INIT_NUMBER_OF_SECTIONS
    /\ sk[ret.self].compactors[1].sectionSize % 2 = 1
    /\ sk[ret.self].compactors[1].numCompactions = 5


\* C30: the size bound is never stale: after every public operation the
\* stored bound equals the sum of the current capacities of all compactors:
\* KLL.maxSize = sum of capacity(h), RelativeErrorSketch.maxNomSize = sum of
\* compactors[h].nomCapacity() (also right after a compaction or compactor
\* merge that doubles numSections), and GDE.max_size = k * len(compactors)
\* (also right after a merge that appends levels).
C30_BoundNeverStale ==
    \A i \in Sketches :
        /\ IsKLL => sk[i].maxSize = KLL_sumCapacity(sk[i], Len(sk[i].compactors))
        /\ IsREQ => sk[i].maxNomSize = REQ_sumNomCapacity(sk[i].compactors)
        /\ IsGDE => sk[i].max_size = sk[i].k * Len(sk[i].compactors)


\* the bound a sketch stores and tests its size against
StoredBound(s) == IF IsKLL THEN s.maxSize ELSE s.maxNomSize

\* the capacity of level h of the sketch s
CapacityOf(s, h) ==
    IF IsKLL THEN KLL_capacity(s, h - 1) ELSE REQ_nomCapacity(s.compactors[h])

\* the levels of sk[i] that compact in the step
CompactedLevels(i) ==
    { h \in 1..Len(sk'[i].compactors) :
        Compactions(sk'[i].compactors[h])
            > (IF h <= Len(sk[i].compactors)
               THEN Compactions(sk[i].compactors[h]) ELSE 0) }

\* the levels of sk[i] that are full once an item is appended to level 0
FullLevels(i) ==
    { h \in 1..Len(sk[i].compactors) :
        Len(sk[i].compactors[h].buf) + (IF h = 1 THEN 1 ELSE 0)
            >= CapacityOf(sk[i], h) }

\* C31: under the lazy policy (KLL with lazy = True,
\* RelativeErrorSketch.update) an update that triggers compression compacts
\* exactly one compactor, the lowest level h with |compactors[h]| >=
\* capacity(h), which always exists, and that compaction restores
\* size < maxSize; an update that does not reach maxSize compacts nothing.
C31_LazyCompactsOnce ==
    [][ (((IsKLL /\ cfg.lazy) \/ IsREQ) /\ ret'.op = "update") =>
            LET i == ret'.self
            IN  IF sk[i].size + 1 >= StoredBound(sk[i])
                THEN /\ FullLevels(i) # {}
                     /\ CompactedLevels(i) =
                            { h \in FullLevels(i) : \A g \in FullLevels(i) : h <= g }
                     /\ sk'[i].size < StoredBound(sk'[i])
                ELSE CompactedLevels(i) = {} ]_vars


-----------------------------------------------------------------------------
(* The loops "while self.size >= self.maxSize" of KLL.merge and
   "while self.size >= self.max_size" of GDE.update and GDE.merge, one
   iteration a step.  While a call is in its loop ret.op is "merge:while" or
   "update:while", ret.self the sketch, and ret.val holds the number of
   iterations made, followed by the vector of the update. *)

LoopOps == {"merge:while", "update:while"}

InLoop == ret.op \in LoopOps

\* KLL.merge up to its loop
KLLMergeEnter(i) ==
    /\ IsKLL /\ ~InLoop /\ CanMerge(i)
    /\ LET s1 == KLL_extendAll(KLL_growTo(sk[i], sk[Other(i)].H), sk[Other(i)])
       IN  sk' = [sk EXCEPT ![i] = [s1 EXCEPT !.size = SumLen(s1.compactors)]]
    /\ ret' = Ret("merge:while", i, NoExc, <<0>>)
    /\ ins' = [ins EXCEPT ![i] = @ + ins[Other(i)]]
    /\ fed' = [fed EXCEPT ![i] = FedSum(fed[i], fed[Other(i)])]
    /\ UNCHANGED cfg

\* one iteration of the loop of KLL.merge: self.compress()
KLLMergeIterate(i) ==
    /\ IsKLL /\ ret.op = "merge:while" /\ ret.self = i
    /\ sk[i].size >= sk[i].maxSize
    /\ \E t \in KLL_compress(sk[i]) : sk' = [sk EXCEPT ![i] = t]
    /\ ret' = [ret EXCEPT !.val = <<ret.val[1] + 1>>]
    /\ UNCHANGED <<cfg, ins, fed>>

\* the loop of KLL.merge exits, and the assertion after it
KLLMergeExit(i) ==
    /\ IsKLL /\ ret.op = "merge:while" /\ ret.self = i
    /\ sk[i].size < sk[i].maxSize
    /\ ret' = Ret("merge", i, NoExc, ret.val)
    /\ UNCHANGED <<cfg, sk, ins, fed>>

\* GDE.update up to its loop
GDEUpdateEnter(i, vector) ==
    /\ IsGDE /\ ~InLoop /\ CanUpdate
    /\ IF sk[i].d # None /\ Len(vector) # sk[i].d
       THEN /\ ret' = Ret("update", i, "ValueError", <<vector>>)
            /\ UNCHANGED sk
       ELSE /\ ret' = Ret("update:while", i, NoExc, <<0, vector>>)
            /\ sk' = IF sk[i].d = None
                     THEN [sk EXCEPT ![i].d = Len(vector)] ELSE sk
    /\ UNCHANGED <<cfg, ins, fed>>

\* GDE.merge up to its loop
GDEMergeEnter(i) ==
    /\ IsGDE /\ ~InLoop /\ CanMerge(i)
    /\ LET s     == sk[i]
           other == sk[Other(i)]
           s1    == IF s.d = None THEN [s EXCEPT !.d = other.d] ELSE s
           cs    == GDE_extendAll(s1.compactors, other.compactors)
       IN  IF other.d = None
           THEN /\ ret' = Ret("merge", i,
                              IF other.n = 0 THEN NoExc ELSE "AssertionError",
                              <<>>)
                /\ UNCHANGED <<sk, ins>>
           ELSE IF s.d = None /\ s.n # 0
           THEN /\ ret' = Ret("merge", i, "AssertionError", <<>>)
                /\ UNCHANGED <<sk, ins>>
           ELSE IF s.d # None /\ s.d # other.d
           THEN /\ ret' = Ret("merge", i, "ValueError", <<>>)
                /\ UNCHANGED <<sk, ins>>
           ELSE /\ ret' = Ret("merge:while", i, NoExc, <<0>>)
                /\ sk' = [sk EXCEPT ![i] =
                            [s1 EXCEPT !.compactors = cs,
                                       !.size = GDE_sumLen(cs),
                                       !.n = @ + other.n]]
                /\ ins' = [ins EXCEPT ![i] = @ + other.n]
    /\ UNCHANGED <<cfg, fed>>

\* one iteration of the loop of GDE.update or GDE.merge: compress, then
\* refresh max_size and size
GDEIterate(i) ==
    /\ IsGDE /\ InLoop /\ ret.self = i
    /\ sk[i].size >= sk[i].max_size
    /\ \E t \in GDE_first_large_compress(sk[i]) :
          sk' = [sk EXCEPT ![i] =
                    [t EXCEPT !.max_size = t.k * Len(t.compactors),
                              !.size = GDE_sumLen(t.compactors)]]
    /\ ret' = [ret EXCEPT !.val[1] = @ + 1]
    /\ UNCHANGED <<cfg, ins, fed>>

\* the loop of GDE.update exits: the vector is counted and stored
GDEUpdateExit(i) ==
    /\ IsGDE /\ ret.op = "update:while" /\ ret.self = i
    /\ sk[i].size < sk[i].max_size
    /\ sk' = [sk EXCEPT ![i] =
                [@ EXCEPT !.n = @ + 1, !.size = @ + 1,
                          !.compactors[1] = Append(@, ret.val[2])]]
    /\ ret' = Ret("update", i, NoExc, ret.val)
    /\ ins' = [ins EXCEPT ![i] = @ + 1]
    /\ UNCHANGED <<cfg, fed>>

\* the loop of GDE.merge exits
GDEMergeExit(i) ==
    /\ IsGDE /\ ret.op = "merge:while" /\ ret.self = i
    /\ sk[i].size < sk[i].max_size
    /\ ret' = Ret("merge", i, NoExc, ret.val)
    /\ UNCHANGED <<cfg, sk, ins, fed>>

\* the call in progress goes on
LoopStep ==
    \E i \in Sketches :
       \/ KLLMergeIterate(i)
       \/ KLLMergeExit(i)
       \/ GDEIterate(i)
       \/ GDEUpdateExit(i)
       \/ GDEMergeExit(i)

InitLoops == InitWith(KLL_Configs \cup GDE_Configs)

NextLoops ==
    \/ \E i \in Sketches, item \in cfg.items : ~InLoop /\ KLLUpdate(i, item)
    \/ \E i \in Sketches : KLLMergeEnter(i)
    \/ \E i \in Sketches, vector \in Vectors : GDEUpdateEnter(i, vector)
    \/ \E i \in Sketches : GDEMergeEnter(i)
    \/ LoopStep

SpecLoops == InitLoops /\ [][NextLoops]_vars

\* the vectors of a GDE sketch counted by the levels left above them when
\* the sketch has room for L levels
RECURSIVE GDE_levelsAbove(_, _, _)
GDE_levelsAbove(cs, L, h) ==
    IF h > Len(cs) THEN 0
    ELSE Len(cs[h]) * (L - h) + GDE_levelsAbove(cs, L, h + 1)

\* what an iteration of the loop uses up.  KLL: the stored items.  GDE: a
\* loop runs with self.n fixed and never has more than n + 1 levels; an
\* iteration moves vectors up or drops them, or it raises max_size, which
\* is at most k * (n + 2).
LoopMeasure(s) ==
    IF IsKLL THEN s.size
    ELSE GDE_levelsAbove(s.compactors, s.n + 2, 1)
         + (s.k * (s.n + 2) - s.max_size)

\* C32: every public operation terminates: the loop "while size >= maxSize:
\* compress()" of KLL.merge and the loops "while size >= max_size" of
\* GDE.update and GDE.merge (k >= 1) exit after finitely many iterations,
\* because each iteration compacts some level or raises the bound: every
\* iteration makes a natural number smaller.
C32_LoopsExit ==
    [][ (InLoop /\ InLoop') =>
            /\ LoopMeasure(sk[ret.self]) \in Nat
            /\ LoopMeasure(sk'[ret.self]) \in Nat
            /\ LoopMeasure(sk'[ret.self]) < LoopMeasure(sk[ret.self]) ]_vars

\* a loop of GDE has made two iterations and makes a third
C32_Witness ==
    /\ IsGDE /\ InLoop
    /\ ret.val[1] = 2
    /\ sk[ret.self].size >= sk[ret.self].max_size


\* len(self.compactors)
Heights(s) == Len(s.compactors)

Max(a, b) == IF a >= b THEN a ELSE b

\* C33: height lifecycle: KLL, RelativeErrorSketch and GDE are created
\* empty with exactly one height-0 compactor; the number of compactors never
\* decreases under any operation; a single update adds at most one new
\* height; and merge(other) leaves self with at least max(self.H, other.H)
\* heights whichever sketch is taller.
C33_HeightLifecycle ==
    /\ (ret.op = "new" =>
           \A i \in Sketches :
              /\ Heights(sk[i]) = 1
              /\ sk[i].size = 0
              /\ (IF IsGDE THEN sk[i].compactors[1]
                  ELSE sk[i].compactors[1].buf) = <<>>)
    /\ [][ /\ \A i \in Sketches : Heights(sk'[i]) >= Heights(sk[i])
           /\ ret'.op = "update" =>
                 Heights(sk'[ret'.self]) <= Heights(sk[ret'.self]) + 1
           /\ (ret'.op = "merge" /\ ret'.exc = NoExc) =>
                 Heights(sk'[ret'.self])
                     >= Max(Heights(sk[ret'.self]), Heights(sk[Other(ret'.self)]))
           /\ (ret'.op = "mergeStatic" /\ ret'.val # <<>>) =>
                 Heights(sk'[ret'.val[1]]) >= Max(Heights(sk[1]), Heights(sk[2]))
         ]_vars

\* an empty sketch has merged a sketch of two heights or more
C33_Witness ==
    /\ ret.op = "merge" /\ ret.exc = NoExc
    /\ ins[ret.self] = ins[Other(ret.self)]
    /\ Heights(sk[Other(ret.self)]) >= 2
    /\ Heights(sk[ret.self]) >= Heights(sk[Other(ret.self)])


-----------------------------------------------------------------------------
(* KLL sketches of several k and c that are fed, merged and grown *)

\* sk[i].grow()
KLLGrow(i) ==
    /\ IsKLL
    /\ sk[i].H < KLL_GrowMaxH
    /\ sk' = [sk EXCEPT ![i] = KLL_grow(sk[i])]
    /\ ret' = Ret("grow", i, NoExc, <<>>)
    /\ UNCHANGED <<cfg, ins, fed>>

KLL_GrowConfigs ==
    [variant : {"kll"}, k : 1..KLL_GrowMaxK,
     c : {<<2, 3>>, <<3, 4>>, <<1, 1>>},
     lazy : BOOLEAN, alternate : {TRUE}, d : {None},
     items : {{1}}, maxN : {KLL_GrowMaxN}]

InitKllGrow == InitWith(KLL_GrowConfigs)

NextKllGrow ==
    \/ KLLUpdate(1, 1)
    \/ KLLMerge(1)
    \/ \E i \in Sketches : KLLGrow(i)

SpecKllGrow == InitKllGrow /\ [][NextKllGrow]_vars

\* C34: KLL capacities follow capacity(h, H) = ceil(c^(H-h-1) * k) + 1 with
\* the current H: the top compactor has capacity k + 1, capacities do not
\* increase from the top to the bottom, every capacity is at least 2, so
\* that a triggered compaction emits at least one item, growing never
\* raises the capacity of an existing level, and maxSize strictly increases
\* on each grow.
C34_Capacities ==
    /\ [](\A i \in Sketches :
            LET s == sk[i]
            IN  /\ s.H = Len(s.compactors)
                /\ KLL_capacity(s, s.H - 1) = s.k + 1
                /\ \A h \in 0..(s.H - 1) :
                      /\ KLL_capacity(s, h) >= 2
                      /\ (KLL_capacity(s, h) - 1) * Pow(s.c[2], s.H - h - 1)
                             >= s.k * Pow(s.c[1], s.H - h - 1)
                      /\ (KLL_capacity(s, h) - 2) * Pow(s.c[2], s.H - h - 1)
                             < s.k * Pow(s.c[1], s.H - h - 1)
                      /\ h + 1 < s.H => KLL_capacity(s, h) <= KLL_capacity(s, h + 1)
                /\ s.maxSize = KLL_sumCapacity(s, s.H))
    /\ [][ \A i \in Sketches :
              /\ sk'[i].H > sk[i].H =>
                    /\ sk'[i].maxSize > sk[i].maxSize
                    /\ \A h \in 0..(sk[i].H - 1) :
                          KLL_capacity(sk'[i], h) <= KLL_capacity(sk[i], h)
              /\ (cfg.lazy /\ ret'.op = "update") =>
                    \A h \in CompactedLevels(i) :
                       Len(sk'[i].compactors[h + 1].buf)
                           > (IF h + 1 <= sk[i].H
                              THEN Len(sk[i].compactors[h + 1].buf) ELSE 0)
         ]_vars

\* a sketch of three heights whose bottom compactor, of a smaller capacity
\* than the top one, has compacted
C34_Witness ==
    /\ sk[1].H >= 3
    /\ KLL_capacity(sk[1], 0) < KLL_capacity(sk[1], sk[1].H - 1)
    /\ sk[1].compactors[1].numCompaction > 0


\* the number of positions of s that hold v
CountIn(s, v) == Cardinality({ j \in 1..Len(s) : s[j] = v })

\* the level (from 1) that first_large_compress compacts in sk[i], or 0
GDE_CompactedLevel(i) == GDE_firstLarge(sk[i].compactors, sk[i].k, 0) + 1

\* the level above h before the step: empty when it is yet to be appended
GDE_Above(i, h) ==
    IF h + 1 <= Len(sk[i].compactors) THEN sk[i].compactors[h + 1] ELSE <<>>

\* C35: GDE.compact on a buffer of m >= 2 vectors with strictly positive
\* kernel values gives opposite signs to the first two shuffled vectors, so
\* it emits at least 1 and at most m - 1 vectors, every emitted vector is
\* one of the buffer's vectors, and the source buffer is empty afterwards;
\* hence the compaction strictly reduces the number of stored vectors.
C35_GDECompact ==
    [][ (IsGDE /\ InLoop /\ InLoop' /\ GDE_CompactedLevel(ret.self) > 0) =>
            LET i     == ret.self
                h     == GDE_CompactedLevel(i)
                buf   == sk[i].compactors[h]
                m     == Len(buf)
                above == sk'[i].compactors[h + 1]
                out   == SubSeq(above, Len(GDE_Above(i, h)) + 1, Len(above))
            IN  (/\ m >= 2
                 /\ \A a, b \in 1..m : GDE_kernel(buf[a], buf[b]) > 0)
                => /\ SubSeq(above, 1, Len(GDE_Above(i, h))) = GDE_Above(i, h)
                   /\ Len(out) >= 1
                   /\ Len(out) <= m - 1
                   /\ \A v \in Range(out) : CountIn(out, v) <= CountIn(buf, v)
                   /\ sk'[i].compactors[h] = <<>>
                   /\ GDE_sumLen(sk'[i].compactors) < GDE_sumLen(sk[i].compactors)
      ]_vars

\* a compaction of a loop of GDE has just emptied level 0 and left three
\* vectors or more, not all equal, on level 1
C35_Witness ==
    /\ IsGDE /\ InLoop /\ ret.val[1] >= 1
    /\ sk[ret.self].compactors[1] = <<>>
    /\ Len(sk[ret.self].compactors) >= 2
    /\ Len(sk[ret.self].compactors[2]) >= 3
    /\ Cardinality(Range(sk[ret.self].compactors[2])) >= 2


\* the compression loop of a merge into sketch s compacts nothing: it is
\* not entered, or compress finds no level with k vectors
GDE_NothingToCompact(s, cs) ==
    \/ GDE_sumLen(cs) < s.max_size
    \/ GDE_firstLarge(cs, s.k, 0) = -1

\* C36: GDE.merge with an empty argument (other.d is None, other.n = 0) is
\* a no-op that leaves self unchanged; GDE.merge into an empty self (self.d
\* is None) adopts other.d and ends with n = other.n and the same stored
\* vectors per level as other when no compaction is triggered, without
\* raising a dimension error.
C36_GDEMergeEmpty ==
    [][ (IsGDE /\ ret'.op = "merge") =>
            LET i     == ret'.self
                other == sk[Other(i)]
            IN  /\ (other.d = None /\ other.n = 0) =>
                      /\ ret'.exc = NoExc
                      /\ sk' = sk
                /\ (sk[i].d = None /\ other.d # None) =>
                      /\ ret'.exc = NoExc
                      /\ sk'[i].d = other.d
                      /\ sk'[i].n = other.n
                      /\ sk'[Other(i)] = other
                      /\ GDE_NothingToCompact(sk[i], other.compactors) =>
                            sk'[i].compactors = other.compactors
      ]_vars

\* an empty GDE sketch has merged one with two levels and holds its vectors
C36_Witness ==
    /\ IsGDE
    /\ ret.op = "merge" /\ ret.exc = NoExc
    /\ sk[ret.self].n = sk[Other(ret.self)].n
    /\ ins[ret.self] = ins[Other(ret.self)]
    /\ Len(sk[ret.self].compactors) >= 2
    /\ sk[ret.self].compactors = sk[Other(ret.self)].compactors


-----------------------------------------------------------------------------
(* The experimental RelativeErrorSketch: one sketch is fed, an empty one
   merges it and is fed in turn.  ret.val lists what each compaction of the
   call used. *)

IsREQX == cfg.variant = "reqx"

REQXUpdate(i, item) ==
    /\ IsREQX
    /\ CanUpdate
    /\ \E r \in REQX_update(sk[i], item) :
          /\ sk' = [sk EXCEPT ![i] = r.s]
          /\ ret' = Ret("update", i, r.exc, r.log)
    /\ ins' = [ins EXCEPT ![i] = @ + 1]
    /\ fed' = [fed EXCEPT ![i][item] = @ + 1]
    /\ UNCHANGED cfg

REQXMerge(i) ==
    /\ IsREQX
    /\ CanMerge(i)
    /\ \E r \in REQX_mergeIntoSelf(sk[i], sk[Other(i)]) :
          /\ sk' = [sk EXCEPT ![i] = r.s]
          /\ ret' = Ret("merge", i, r.exc, r.log)
    /\ ins' = [ins EXCEPT ![i] = @ + ins[Other(i)]]
    /\ fed' = [fed EXCEPT ![i] = FedSum(fed[i], fed[Other(i)])]
    /\ UNCHANGED cfg

REQX_FeedConfigs ==
    [variant : {"reqx"}, k : {REQX_FeedSectionSize}, c : {<<1, 1>>},
     lazy : {TRUE}, alternate : {TRUE}, d : {None},
     items : {{1}}, maxN : {REQX_FeedMaxN}]

InitReqxFeed == InitWith(REQX_FeedConfigs)

NextReqxFeed ==
    \/ (ins[1] < REQX_FeedN /\ ins[2] = 0 /\ REQXUpdate(1, 1))
    \/ (ins[1] > 0 /\ ins[2] = 0 /\ REQXMerge(2))
    \/ (ins[2] > 0 /\ REQXUpdate(2, 1))

SpecReqxFeed == InitReqxFeed /\ [][NextReqxFeed]_vars

\* C37: experimental RelativeErrorSketch with the deterministic schedule:
\* in every compaction reached by any sequence of updates and mergeIntoSelf
\* calls the start index satisfies s >= never - 1, in particular s >= 0, so
\* that the part of the buffer declared never-compacted is not removed, and
\* the assertion s < |buf| - 1 holds.
C37_StartAfterNever ==
    (IsREQX /\ ret.op \in {"update", "merge"}) =>
        /\ ret.exc # "assert s < len(self) - 1"
        /\ \A j \in 1..Len(ret.val) :
              /\ ret.val[j].s >= ret.val[j].never - 1
              /\ ret.val[j].s >= 0
              /\ ret.val[j].s < ret.val[j].len - 1


-----------------------------------------------------------------------------
(* QuantilesSketch: two sketches of one k, fed and merged *)

IsQS == cfg.variant = "qs"

QSUpdate(i, item) ==
    /\ IsQS
    /\ CanUpdate
    /\ \E r \in QS_update(sk[i], item) :
          /\ sk' = [sk EXCEPT ![i] = r.s]
          /\ ret' = Ret("update", i, r.exc, <<>>)
    /\ ins' = [ins EXCEPT ![i] = @ + 1]
    /\ fed' = [fed EXCEPT ![i][item] = @ + 1]
    /\ UNCHANGED cfg

QSMerge(i) ==
    /\ IsQS
    /\ CanMerge(i)
    /\ \E r \in QS_merge(sk[i], sk[Other(i)]) :
          /\ sk' = [sk EXCEPT ![i] = r.s]
          /\ ret' = Ret("merge", i, r.exc, <<sk[i].H, sk[Other(i)].H>>)
    /\ ins' = [ins EXCEPT ![i] = @ + ins[Other(i)]]
    /\ fed' = [fed EXCEPT ![i] = FedSum(fed[i], fed[Other(i)])]
    /\ UNCHANGED cfg

QS_Configs ==
    [variant : {"qs"}, k : 1..QS_MaxK, c : {<<2, 3>>},
     lazy : {TRUE}, alternate : {TRUE}, d : {None},
     items : {Items}, maxN : {QS_MaxN}]

InitQS == InitWith(QS_Configs)

NextQS ==
    \/ \E i \in Sketches, item \in cfg.items : QSUpdate(i, item)
    \/ \E i \in Sketches : QSMerge(i)

SpecQS == InitQS /\ [][NextQS]_vars

\* C38: QuantilesSketch: merge(other) succeeds for any two sketches built
\* with the same k, whichever has more heights (including other.H < self.H),
\* and after every update and merge the total number of stored items is
\* <= maxSize; compress never indexes a compactor at a height >= H.
C38_QSMergeAndSize ==
    (IsQS /\ ret.op \in {"update", "merge"}) =>
        /\ ret.exc = NoExc
        /\ QS_size(sk[ret.self]) <= sk[ret.self].maxSize


-----------------------------------------------------------------------------
(* PufferGoat and StairwayToHeaven fed a stream; ret.val is the x given and
   the value returned *)

IsPG == cfg.variant = "pg"
IsSTH == cfg.variant = "sth"

PGUpdate(i, x) ==
    /\ IsPG
    /\ CanUpdate
    /\ sk' = [sk EXCEPT ![i] = PG_update(sk[i], x).s]
    /\ ret' = Ret("update", i, NoExc, <<x, PG_update(sk[i], x).val>>)
    /\ ins' = [ins EXCEPT ![i] = @ + 1]
    /\ fed' = [fed EXCEPT ![i][x] = @ + 1]
    /\ UNCHANGED cfg

STHUpdate(i, x) ==
    /\ IsSTH
    /\ CanUpdate
    /\ \E r \in STH_update(sk[i], x) :
          /\ sk' = [sk EXCEPT ![i] = r.s]
          /\ ret' = Ret("update", i, NoExc, <<x, r.val>>)
    /\ ins' = [ins EXCEPT ![i] = @ + 1]
    /\ fed' = [fed EXCEPT ![i][x] = @ + 1]
    /\ UNCHANGED cfg

PG_Configs ==
    [variant : {"pg", "sth"}, k : 1..PG_MaxSize, c : {<<1, 1>>},
     lazy : {TRUE}, alternate : {TRUE}, d : {None},
     items : {1..PG_MaxItem}, maxN : {PG_MaxN}]

InitBoxes == InitWith(PG_Configs)

NextBoxes ==
    \/ \E x \in cfg.items : PGUpdate(1, x)
    \/ \E x \in cfg.items : STHUpdate(1, x)

SpecBoxes == InitBoxes /\ [][NextBoxes]_vars

\* the boxes of s after the pair (b, b + 1), from 1, is made one box
BoxesMergedAt(items, b) ==
    [j \in 1..(Len(items) - 1) |->
        IF j < b THEN items[j]
        ELSE IF j = b THEN [x1 |-> items[b].x1, x2 |-> items[b + 1].x2,
                            y1 |-> items[b].y1, y2 |-> items[b + 1].y2]
        ELSE items[j + 1]]

\* C39: PufferGoat and StairwayToHeaven: after every update(x) with finite x
\* and max_size >= 1 the number of boxes is <= max_size, consecutive boxes
\* share their boundary (items[i].x2 = items[i+1].x1), every box has
\* y1 <= y2, the first box has y1 = 0 and the last box has y2 = n, the
\* number of updates; and sqweeze merges an adjacent pair (i, i+1) that
\* minimises items[i+1].y2 - items[i].y1.
C39_Boxes ==
    /\ []((IsPG \/ IsSTH) =>
            \A i \in Sketches :
               LET items == sk[i].items
               IN  /\ Len(items) <= sk[i].max_size
                   /\ \A j \in 1..(Len(items) - 1) : items[j].x2 = items[j + 1].x1
                   /\ \A j \in 1..Len(items) : items[j].y1 <= items[j].y2
                   /\ items[1].y1 = 0
                   /\ items[Len(items)].y2 = sk[i].n
                   /\ sk[i].n = ins[i])
    /\ [][ ((IsPG \/ IsSTH) /\ ret'.op = "update") =>
              LET i   == ret'.self
                  mid == PG_insert(sk[i], ret'.val[1]).items
              IN  IF Len(mid) > sk[i].max_size
                  THEN \E b \in 1..(Len(mid) - 1) :
                          /\ \A j \in 1..(Len(mid) - 1) :
                                mid[b + 1].y2 - mid[b].y1 <= mid[j + 1].y2 - mid[j].y1
                          /\ sk'[i].items = BoxesMergedAt(mid, b)
                  ELSE sk'[i].items = mid
         ]_vars

\* an update of a StairwayToHeaven of three boxes has merged the last two
\* of its four boxes and returned 3
C39_Witness ==
    /\ IsSTH
    /\ ret.op = "update"
    /\ ret.val[2] = 3
    /\ Len(sk[1].items) = 3
    /\ sk[1].n > 3

=============================================================================
